---- MODULE Spec2Model ----
(***************************************************************************)
(* Model of the eirriel/demoapp infrastructure programs.                   *)
(*                                                                         *)
(* Part I  - the five stack programs (infra/<stack>/__main__.py) as        *)
(*           sequences of evaluation steps, run one step at a time against *)
(*           the backend's record of applied stacks and their outputs.     *)
(* Part II - the KubernetesService component (modules/app/app.py).         *)
(* Part III- the RdsDb component (modules/db/db.py).                       *)
(*                                                                         *)
(* Python evaluates the arguments of a call before the call, so the steps  *)
(* of a program are listed in that order: the config reads and output      *)
(* reads that appear as keyword arguments of an Args constructor come      *)
(* first, then the Args constructor, then the component that receives it.  *)
(***************************************************************************)
EXTENDS Integers, Sequences, FiniteSets, TLC

VARIABLES
    applied,      \* applied[s]: stack s has been evaluated to the end
    outputs,      \* outputs[s]: output keys stack s has published
    cur,          \* the stack whose program is (or was last) evaluated
    pc,           \* index of the next step of Program(cur)
    status,       \* "idle" | "running" | "failed" | "done"
    failure,      \* why the evaluation failed ("" while it has not)
    cfg,          \* configuration keys present for this evaluation
    declared,     \* resources declared so far by this evaluation, in order
    exported,     \* keys passed to pulumi.export so far by this evaluation
    nones,        \* reads that returned None instead of a value
    refs,         \* <<from, to>> for every StackReference ever declared
    svcArgs,      \* arguments of the KubernetesService under construction
    svc,          \* resources declared by KubernetesService.__init__
    dbArgs,       \* arguments of the RdsDb under construction
    db,           \* resources declared by RdsDb.__init__
    dbCfg,        \* configuration values of an evaluation of db/__main__.py
    dbRun,        \* how that evaluation ended, and what it exported
    appCfg,       \* configuration values of an evaluation of app/__main__.py
    appRun,       \* how that evaluation ended
    eks,          \* resources declared by EKS.__init__
    certs,        \* resources declared by Certs.__init__ and its callback
    svcs,         \* resources declared by ServicesResources.__init__
    kauth,        \* resources declared by KAuth.__init__
    vpcCfg,       \* inputs of an evaluation of vpc/__main__.py
    vpcRun,       \* how that evaluation ended, and what it exported
    eksCfg,       \* inputs of an evaluation of eks/__main__.py
    eksRun        \* how that evaluation ended, and what it exported

stackVars == <<applied, outputs, cur, pc, status, failure, cfg, declared,
               exported, nones, refs>>
svcVars == <<svcArgs, svc>>
dbVars == <<dbArgs, db>>
mainVars == <<dbCfg, dbRun, appCfg, appRun>>
compVars == <<eks, certs, svcs, kauth>>
progVars == <<vpcCfg, vpcRun, eksCfg, eksRun>>
vars == <<stackVars, svcVars, dbVars, mainVars, compVars, progVars>>

\* At most this many configuration keys are absent in one evaluation.
MaxMissing == 1

(***************************************************************************)
(* Part I: stack programs                                                  *)
(***************************************************************************)

Stacks == {"vpc", "eks", "db", "services", "app"}

\* pulumi.StackReference('organization/<s>/<s>-demo')
StackRef(s, l) ==
    [kind |-> "ref", stack |-> s, key |-> "", passed |-> {}, line |-> l]
\* config.require / config.require_object
Require(k, l) ==
    [kind |-> "require", stack |-> "", key |-> k, passed |-> {}, line |-> l]
\* config.get / get_int / get_object: None when the key is absent
Get(k, l) ==
    [kind |-> "get", stack |-> "", key |-> k, passed |-> {}, line |-> l]
\* config.get / get_bool with a default: the default when the key is absent
GetDefault(k, l) ==
    [kind |-> "get_default", stack |-> "", key |-> k, passed |-> {},
     line |-> l]
\* **config.get_object(k): unpacking None raises TypeError
Unpack(k, l) ==
    [kind |-> "unpack", stack |-> "", key |-> k, passed |-> {}, line |-> l]
\* <stack>.get_output(k)
GetOutput(s, k, l) ==
    [kind |-> "get_output", stack |-> s, key |-> k, passed |-> {},
     line |-> l]
\* <stack>.require_output(k)
RequireOutput(s, k, l) ==
    [kind |-> "require_output", stack |-> s, key |-> k, passed |-> {},
     line |-> l]
\* a call of an Args constructor with the keyword arguments kw
MakeArgs(cls, kw, l) ==
    [kind |-> "args", stack |-> "", key |-> cls, passed |-> kw, line |-> l]
\* a resource or component declaration
Resource(n, l) ==
    [kind |-> "resource", stack |-> "", key |-> n, passed |-> {}, line |-> l]
\* pulumi.export(k, ...)
Export(k, l) ==
    [kind |-> "export", stack |-> "", key |-> k, passed |-> {}, line |-> l]

VpcExports ==
    << Export("vpc_id", 26),
       Require("vpc_cidr", 27),
       Export("vpc_cidr", 27),
       Export("public_subnet_ids", 28),
       Export("private_subnet_ids", 29),
       Export("nat_gateway_ips", 30) >>

\* the keyword arguments vpc/__main__.py passes to VpcArgs
VpcKwargs ==
    {"description", "base_tags", "base_cidr", "availability_zone_names",
     "create_s3_endpoint"}

VpcProgram ==
    << Require("vpc_cidr", 19),
       GetDefault("create_s3_endpoint", 22),
       MakeArgs("VpcArgs", VpcKwargs, 16),
       Resource("Vpc", 16),
       Resource("FlowLogs", 24) >> \o VpcExports

EksExportsRenamed ==
    << Export("cluster-public-load-balancer", 43),
       Export("cluster_name", 44),
       Export("cluster_worker_role", 45),
       Export("cluster_issuer", 46),
       Export("cluster_openid_connector", 47) >>

EksExports ==
    << Export("cluster_public_load_balancer", 43),
       Export("cluster_name", 44),
       Export("cluster_worker_role", 45),
       Export("cluster_issuer", 46),
       Export("cluster_openid_connector", 47) >>

\* the keyword arguments eks/__main__.py passes to EksArgs
EksKwargs ==
    {"base_tags", "default_certificate_arn", "eks_version",
     "private_subnet_ids", "public_endpoint", "public_subnet_ids", "vpc_id",
     "worker_image_id", "worker_instance_type", "worker_key_name",
     "worker_max_size", "worker_min_size"}

EksProgram ==
    << StackRef("vpc", 7),
       Require("cert_domain_name", 17),
       MakeArgs("CertArgs", {"alt_names", "base_tags", "domain_name"}, 14),
       Resource("Certs", 12),
       Require("eks_images", 21),
       Require("eks_version", 27),
       RequireOutput("vpc", "private_subnet_ids", 31),
       RequireOutput("vpc", "public_subnet_ids", 33),
       RequireOutput("vpc", "vpc_id", 34),
       GetDefault("eks_version", 35),
       Require("eks_worker_instance_type", 36),
       Require("eks_key_pair", 37),
       Get("eks_worker_max_size", 38),
       Get("eks_worker_min_size", 39),
       MakeArgs("EksArgs", EksKwargs, 24),
       Resource("EKS", 22) >> \o EksExports

DbRefsToApp ==
    << StackRef("vpc", 6), StackRef("app", 7) >>

DbRefs ==
    << StackRef("vpc", 6), StackRef("eks", 7) >>

\* the keyword arguments db/__main__.py passes to RdsDbArgs
DbKwargs ==
    {"base_tags", "cidr_blocks", "major_version", "private_subnets",
     "storage_size", "vpc_id", "zone_name"}

DbProgram ==
    DbRefs \o
    << Get("cidr_blocks", 16),
       Require("db_major_version", 17),
       RequireOutput("vpc", "private_subnet_ids", 18),
       Get("db_storage_size", 19),
       RequireOutput("vpc", "vpc_id", 20),
       MakeArgs("RdsDbArgs", DbKwargs, 14),
       Resource("RdsDb", 12),
       Export("db_admin_username", 25),
       Export("db_admin_password", 26) >>

ServicesProgram ==
    << StackRef("vpc", 6),
       StackRef("eks", 7),
       Require("eks_ebs_csi_chart_version", 16),
       Get("kube_users", 17),
       RequireOutput("eks", "cluster_public_load_balancer", 18),
       RequireOutput("vpc", "private_subnet_ids", 19),
       RequireOutput("eks", "cluster_worker_role", 20),
       RequireOutput("vpc", "vpc_id", 21),
       MakeArgs("ServicesArgs",
                {"base_tags", "ebs_csi_chart_version", "kube_users",
                 "public_alb", "private_subnets", "worker_role_arn",
                 "vpc_id"}, 14),
       Resource("ServicesResources", 12) >>

\* the keyword arguments app/__main__.py passes to KubernetesServiceArgs
AppKwargs ==
    {"base_tags", "app_name", "container_ports", "environment_variables",
     "hostname_list", "image", "ingress_port", "kube_issuer", "max_replicas",
     "min_replicas", "namespace", "openid_connector", "public_load_balancer",
     "secrets_data", "service_permissions"}

AppProgram ==
    << StackRef("eks", 8),
       StackRef("db", 9),
       Resource("Namespace", 14),
       RequireOutput("db", "db_admin_username", 22),
       RequireOutput("db", "db_admin_password", 23),
       Get("app_environment_variables", 34),
       Get("app_hostnames", 35),
       Require("app_image", 36),
       RequireOutput("eks", "cluster_issuer", 38),
       Get("app_max_replicas", 39),
       Get("app_min_replicas", 40),
       RequireOutput("eks", "cluster_openid_connector", 42),
       RequireOutput("eks", "cluster_public_load_balancer", 43),
       Unpack("app_secrets", 46),
       MakeArgs("KubernetesServiceArgs", AppKwargs, 30),
       Resource("KubernetesService", 28) >>

\* The program of each stack.
Programs ==
    [s \in Stacks |->
        CASE s = "vpc" -> VpcProgram
          [] s = "eks" -> EksProgram
          [] s = "db" -> DbProgram
          [] s = "services" -> ServicesProgram
          [] s = "app" -> AppProgram]

Program(s) == Programs[s]

\* The parameters each Args constructor accepts, and those without default.
VpcArgsSig ==
    [accepted |-> {"description", "base_tags", "base_cidr",
                   "availability_zone_names", "create_s3_endpoint"},
     required |-> {"description", "base_tags", "base_cidr",
                   "availability_zone_names"}]

CertArgsSig ==
    [accepted |-> {"alt_names", "base_tags", "domain_name", "zone_name"},
     required |-> {"alt_names", "base_tags", "domain_name"}]

EksArgsSig ==
    [accepted |-> {"base_tags", "default_certificate_arn", "eks_version",
                   "private_subnet_ids", "public_subnet_ids", "vpc_id",
                   "worker_image_id", "worker_key_name", "private_endpoint",
                   "public_endpoint", "worker_instance_type",
                   "worker_max_size", "worker_min_size"},
     required |-> {"base_tags", "default_certificate_arn", "eks_version",
                   "private_subnet_ids", "public_subnet_ids", "vpc_id",
                   "worker_image_id", "worker_key_name"}]

RdsDbArgsSig ==
    [accepted |-> {"base_tags", "cidr_blocks", "major_version",
                   "private_subnets", "vpc_id", "zone_name",
                   "is_prod_database", "serverless_max_capacity",
                   "storage_size"},
     required |-> {"base_tags", "cidr_blocks", "major_version",
                   "private_subnets", "vpc_id", "zone_name"}]

ServicesArgsSig ==
    [accepted |-> {"base_tags", "ebs_csi_chart_version", "kube_users",
                   "public_alb", "vpc_id", "worker_role_arn",
                   "traefik_chart_version"},
     required |-> {"base_tags", "ebs_csi_chart_version", "kube_users",
                   "public_alb", "vpc_id", "worker_role_arn"}]

KubernetesServiceArgsSig ==
    [accepted |-> {"base_tags", "app_name", "container_ports",
                   "environment_variables", "image", "kube_issuer",
                   "namespace", "openid_connector", "public_load_balancer",
                   "secrets_data", "service_permissions", "replicas",
                   "hostname_list", "ingress_port"},
     required |-> {"base_tags", "app_name", "container_ports",
                   "environment_variables", "image", "kube_issuer",
                   "namespace", "openid_connector", "public_load_balancer",
                   "secrets_data", "service_permissions", "replicas",
                   "hostname_list"}]

ArgsSig(cls) ==
    CASE cls = "VpcArgs" -> VpcArgsSig
      [] cls = "CertArgs" -> CertArgsSig
      [] cls = "EksArgs" -> EksArgsSig
      [] cls = "RdsDbArgs" -> RdsDbArgsSig
      [] cls = "ServicesArgs" -> ServicesArgsSig
      [] cls = "KubernetesServiceArgs" -> KubernetesServiceArgsSig

\* A Python call with keyword arguments kw binds iff every keyword is a
\* parameter and every parameter without a default is given.
CallBinds(cls, kw) ==
    /\ kw \subseteq ArgsSig(cls).accepted
    /\ ArgsSig(cls).required \subseteq kw

StepSets == [s \in Stacks |-> {Program(s)[i] : i \in 1..Len(Program(s))}]
Steps(s) == StepSets[s]

\* Every configuration key the program of s reads.
ConfigKeys(s) ==
    {st.key : st \in {x \in Steps(s) :
        x.kind \in {"require", "get", "get_default", "unpack"}}}

\* The configurations an evaluation may run under: all keys present, but
\* for at most MaxMissing of them.
ConfigSets ==
    [s \in Stacks |->
        {c \in SUBSET ConfigKeys(s) :
            Cardinality(ConfigKeys(s) \ c) <= MaxMissing}]
Configs(s) == ConfigSets[s]

\* <stack>.get_output(k): the value, or None when stack s is not applied
\* or does not publish k.
get_output(s, k) ==
    IF applied[s] /\ k \in outputs[s] THEN "value" ELSE "None"

\* <stack>.require_output(k): the value, or an error when stack s is not
\* applied or does not publish k.
require_output(s, k) ==
    IF applied[s] /\ k \in outputs[s] THEN "value" ELSE "error"

Running == status = "running" /\ pc <= Len(Program(cur))
Step == Program(cur)[pc]

Advance ==
    /\ pc' = pc + 1
    /\ UNCHANGED <<applied, outputs, cur, status, failure, cfg>>

Fail(why) ==
    /\ status' = "failed"
    /\ failure' = why
    /\ UNCHANGED <<applied, outputs, cur, pc, cfg>>

StackInit ==
    /\ applied = [s \in Stacks |-> FALSE]
    /\ outputs = [s \in Stacks |-> {}]
    /\ cur = "vpc"
    /\ pc = 1
    /\ status = "idle"
    /\ failure = ""
    /\ cfg = {}
    /\ declared = <<>>
    /\ exported = {}
    /\ nones = {}
    /\ refs = {}

\* `pulumi up` on stack s: a fresh evaluation of its program.
StartEval(s) ==
    /\ status # "running"
    /\ \E c \in Configs(s) :
        /\ cfg' = c
        /\ cur' = s
        /\ pc' = 1
        /\ status' = "running"
        /\ failure' = ""
        /\ declared' = <<>>
        /\ exported' = {}
        /\ nones' = {}
    /\ UNCHANGED <<applied, outputs, refs>>
    /\ UNCHANGED <<svcVars, dbVars, mainVars, compVars, progVars>>

EvalStackRef ==
    /\ Running /\ Step.kind = "ref"
    /\ refs' = refs \cup {<<cur, Step.stack>>}
    /\ IF applied[Step.stack] THEN Advance ELSE Fail("reference")
    /\ UNCHANGED <<declared, exported, nones>>
    /\ UNCHANGED <<svcVars, dbVars, mainVars, compVars, progVars>>

EvalRequire ==
    /\ Running /\ Step.kind = "require"
    /\ IF Step.key \in cfg THEN Advance ELSE Fail("config")
    /\ UNCHANGED <<declared, exported, nones, refs>>
    /\ UNCHANGED <<svcVars, dbVars, mainVars, compVars, progVars>>

EvalGet ==
    /\ Running /\ Step.kind \in {"get", "get_default"}
    /\ Advance
    /\ nones' = IF Step.key \in cfg \/ Step.kind = "get_default"
                THEN nones
                ELSE nones \cup {<<"config", Step.key>>}
    /\ UNCHANGED <<declared, exported, refs>>
    /\ UNCHANGED <<svcVars, dbVars, mainVars, compVars, progVars>>

EvalUnpack ==
    /\ Running /\ Step.kind = "unpack"
    /\ IF Step.key \in cfg THEN Advance ELSE Fail("unpack")
    /\ UNCHANGED <<declared, exported, nones, refs>>
    /\ UNCHANGED <<svcVars, dbVars, mainVars, compVars, progVars>>

EvalOutput ==
    /\ Running /\ Step.kind \in {"require_output", "get_output"}
    /\ LET got == IF Step.kind = "require_output"
                  THEN require_output(Step.stack, Step.key)
                  ELSE get_output(Step.stack, Step.key)
       IN IF got = "error"
          THEN Fail("output") /\ nones' = nones
          ELSE /\ Advance
               /\ nones' = IF got = "None"
                           THEN nones \cup {<<Step.stack, Step.key>>}
                           ELSE nones
    /\ UNCHANGED <<declared, exported, refs>>
    /\ UNCHANGED <<svcVars, dbVars, mainVars, compVars, progVars>>

EvalMakeArgs ==
    /\ Running /\ Step.kind = "args"
    /\ IF CallBinds(Step.key, Step.passed) THEN Advance ELSE Fail("TypeError")
    /\ UNCHANGED <<declared, exported, nones, refs>>
    /\ UNCHANGED <<svcVars, dbVars, mainVars, compVars, progVars>>

EvalResource ==
    /\ Running /\ Step.kind = "resource"
    /\ declared' = Append(declared, Step.key)
    /\ Advance
    /\ UNCHANGED <<exported, nones, refs>>
    /\ UNCHANGED <<svcVars, dbVars, mainVars, compVars, progVars>>

EvalExport ==
    /\ Running /\ Step.kind = "export"
    /\ exported' = exported \cup {Step.key}
    /\ Advance
    /\ UNCHANGED <<declared, nones, refs>>
    /\ UNCHANGED <<svcVars, dbVars, mainVars, compVars, progVars>>

\* The program ran to its end: the stack is applied, its exports published.
Finish ==
    /\ status = "running" /\ pc > Len(Program(cur))
    /\ status' = "done"
    /\ applied' = [applied EXCEPT ![cur] = TRUE]
    /\ outputs' = [outputs EXCEPT ![cur] = exported]
    /\ UNCHANGED <<cur, pc, failure, cfg, declared, exported, nones, refs>>
    /\ UNCHANGED <<svcVars, dbVars, mainVars, compVars, progVars>>

StackNext ==
    \/ \E s \in Stacks : StartEval(s)
    \/ EvalStackRef
    \/ EvalRequire
    \/ EvalGet
    \/ EvalUnpack
    \/ EvalOutput
    \/ EvalMakeArgs
    \/ EvalResource
    \/ EvalExport
    \/ Finish


(***************************************************************************)
(* Part II: the KubernetesService component                                *)
(*                                                                         *)
(* Python strings are sequences of one-character strings, so that          *)
(* formatting, joining and replacing are computed, not assumed.            *)
(***************************************************************************)

\* Bounds of the inputs of the component.
MaxIssuerParts == 3
MaxHosts == 2
MaxPerms == 1
MaxReplicas == 2
MaxPorts == 2

\* min_replicas=1, max_replicas=6 of the HorizontalPodAutoscaler
HpaMinReplicas == 1
HpaMaxReplicas == 6

\* A resource as the engine identifies it under its parent: type and name.
ResourceId(type, name) == [type |-> type, name |-> name]

\* A declaration: the resource, and opts=ResourceOptions(parent=...).
Child(type, name, parent) == [type |-> type, name |-> name, parent |-> parent]

Digits == <<"0", "1", "2", "3", "4", "5", "6", "7", "8", "9">>

RECURSIVE IntToStr(_)
\* f"{n}" for a natural number n
IntToStr(n) ==
    IF n < 10 THEN <<Digits[n + 1]>>
    ELSE IntToStr(n \div 10) \o <<Digits[(n % 10) + 1]>>

\* A pulumi Output (or plain value): what it holds, and whether the engine
\* treats it as a secret.
Plain(v) == [val |-> v, secret |-> FALSE]
Secret(v) == [val |-> v, secret |-> TRUE]

\* The empty dict; dicts are functions from keys to values.
EmptyDict == [k \in {} |-> Plain("")]

\* {**a, **b}: the entries of b win
DictMerge(a, b) ==
    [k \in (DOMAIN a) \cup (DOMAIN b) |-> IF k \in DOMAIN b THEN b[k] ELSE a[k]]

RECURSIVE Concat(_)
\* "".join(parts)
Concat(parts) ==
    IF parts = <<>> THEN <<>> ELSE Head(parts) \o Concat(Tail(parts))

RECURSIVE Join(_, _)
\* sep.join(parts)
Join(sep, parts) ==
    IF parts = <<>> THEN <<>>
    ELSE IF Len(parts) = 1 THEN Head(parts)
    ELSE Head(parts) \o sep \o Join(sep, Tail(parts))

StartsWith(s, p) == Len(s) >= Len(p) /\ SubSeq(s, 1, Len(p)) = p

RECURSIVE StrReplace(_, _, _)
\* str.replace(old, new) for a non-empty old: every non-overlapping
\* occurrence of old, scanning from the left, is replaced by new.
StrReplace(s, old, new) ==
    IF Len(s) < Len(old) THEN s
    ELSE IF StartsWith(s, old)
         THEN new \o StrReplace(SubSeq(s, Len(old) + 1, Len(s)), old, new)
         ELSE <<Head(s)>> \o StrReplace(Tail(s), old, new)

\* s contains p as a substring
Contains(s, p) ==
    \E i \in 1..(Len(s) - Len(p) + 1) : SubSeq(s, i, i + Len(p) - 1) = p

HttpsScheme == <<"h", "t", "t", "p", "s", ":", "/", "/">>
SubSuffix == <<":", "s", "u", "b">>
SubjectPrefix == <<"s", "y", "s", "t", "e", "m", ":", "s", "e", "r", "v", "i", "c", "e", "a", "c", "c", "o", "u", "n", "t", ":">>
Colon == <<":">>

ExampleIssuer ==
    <<"h", "t", "t", "p", "s", ":", "/", "/", "x", ".", "e", "k", "s", ".", "a", "m", "a", "z", "o", "n", "a", "w", "s", ".", "c", "o", "m", "/", "i", "d", "/", "A", "B", "C">>
ExampleName == <<"d", "e", "m", "o", "a", "p", "p", "-", "a", "p", "p">>
\* app_name='demoapp' of the application stack
AppName == <<"d", "e", "m", "o", "a", "p", "p">>
ExampleNamespace == <<"d", "e", "m", "o", "a", "p", "p">>

\* What follows the scheme of an issuer URL is assembled from these pieces:
\* a host or path segment, a separator, and the scheme itself.
IssuerPieces == {<<"x">>, <<"/">>, HttpsScheme}

\* An issuer whose host begins with a near miss of the scheme.
NearMissIssuer == HttpsScheme \o <<"h", "t", "t", "p", "s", ":", "/", "x">>

RECURSIVE SeqsUpTo(_, _)
\* all sequences over S of length at most n
SeqsUpTo(S, n) ==
    IF n = 0 THEN {<<>>}
    ELSE LET shorter == SeqsUpTo(S, n - 1)
         IN shorter \cup {Append(q, x) : q \in shorter, x \in S}

\* Issuer URLs: the https scheme, then up to MaxIssuerParts pieces.
Issuers ==
    {HttpsScheme \o Concat(ps) : ps \in SeqsUpTo(IssuerPieces, MaxIssuerParts)}
        \cup {ExampleIssuer, NearMissIssuer}

\* (namespace, component name) pairs; "a"+"aa" and "aa"+"a" agree once the
\* separator is dropped.
SvcIdentities ==
    {<<(<<"a">>), (<<"a", "a">>)>>, <<(<<"a", "a">>), (<<"a">>)>>,
     <<ExampleNamespace, ExampleName>>}

\* hostname entries: {name, create_record}, create_record possibly unset
HostNames == {<<"u">>, <<"v">>}
HostEntries ==
    [name : HostNames, create_record : {"unset", "True", "False"}]
HostLists == SeqsUpTo(HostEntries, MaxHosts)

\* service_permissions: policy statements supplied by the caller
PermLists == SeqsUpTo({"stmt"}, MaxPerms)

\* BASE_TAGS = {'Environment': envName}
ExampleTags == [Environment |-> Plain("demo")]

\* environment_variables and secrets_data: dicts of values
ExampleEnv == [LOG_LEVEL |-> Plain("debug")]
ExampleSecrets ==
    [DB_USERNAME |-> Plain("root"), DB_PASSWORD |-> Secret("db-password")]
EnvDicts == {EmptyDict, ExampleEnv}
SecretDicts ==
    {EmptyDict, ExampleSecrets, [API_KEY |-> Plain("key")],
     DictMerge(ExampleSecrets, [API_KEY |-> Plain("key")])}
ReplicaCounts == 1..MaxReplicas

\* Arguments that vary what the resources are called and which of them
\* exist, with the workload's data fixed.
SvcNamingArgs ==
    {[name |-> id[2],
      base_tags |-> ExampleTags,
      app_name |-> AppName,
      namespace |-> id[1],
      kube_issuer |-> ki,
      openid_connector |-> "oidc-arn",
      public_load_balancer |-> "alb-dns",
      service_permissions |-> sp,
      hostname_list |-> hl,
      container_ports |-> << 3000 >>,
      ingress_port |-> 3000,
      replicas |-> 1,
      environment_variables |-> ExampleEnv,
      secrets_data |-> ExampleSecrets] :
        id \in SvcIdentities, ki \in Issuers, sp \in PermLists,
        hl \in HostLists}

\* Arguments that vary the workload's data, with the naming fixed.
SvcDataArgs ==
    {[name |-> ExampleName,
      base_tags |-> ExampleTags,
      app_name |-> AppName,
      namespace |-> ExampleNamespace,
      kube_issuer |-> ExampleIssuer,
      openid_connector |-> "oidc-arn",
      public_load_balancer |-> "alb-dns",
      service_permissions |-> <<>>,
      hostname_list |-> <<>>,
      container_ports |-> << 3000 >>,
      ingress_port |-> 3000,
      replicas |-> r,
      environment_variables |-> ev,
      secrets_data |-> sd] :
        r \in ReplicaCounts, ev \in EnvDicts, sd \in SecretDicts}

\* container_ports: the ports the container listens on
PortLists == SeqsUpTo({80, 3000}, MaxPorts)

\* Arguments that vary the identity of the workload and its ports.
SvcPortArgs ==
    {[name |-> id[2],
      base_tags |-> ExampleTags,
      app_name |-> AppName,
      namespace |-> id[1],
      kube_issuer |-> ExampleIssuer,
      openid_connector |-> "oidc-arn",
      public_load_balancer |-> "alb-dns",
      service_permissions |-> <<>>,
      hostname_list |-> hl,
      container_ports |-> cp,
      ingress_port |-> ip,
      replicas |-> 1,
      environment_variables |-> ExampleEnv,
      secrets_data |-> ExampleSecrets] :
        id \in SvcIdentities, cp \in PortLists, ip \in {80, 3000},
        hl \in {<<>>, << [name |-> <<"u">>, create_record |-> "unset"] >>}}

SvcArgSpace == SvcNamingArgs \cup SvcDataArgs \cup SvcPortArgs

NoSvcArgs ==
    [name |-> <<>>, base_tags |-> EmptyDict, app_name |-> <<>>,
     namespace |-> <<>>, kube_issuer |-> <<>>,
     openid_connector |-> "", public_load_balancer |-> "",
     service_permissions |-> <<>>, hostname_list |-> <<>>,
     container_ports |-> <<>>, ingress_port |-> 80,
     replicas |-> 1, environment_variables |-> EmptyDict,
     secrets_data |-> EmptyDict]

\* rec.get('create_record', True)
GetCreateRecordDefaultFalse(rec) ==
    IF rec.create_record = "unset" THEN FALSE ELSE rec.create_record = "True"

GetCreateRecordIgnored(rec) == TRUE

GetCreateRecord(rec) ==
    IF rec.create_record = "unset" THEN TRUE ELSE rec.create_record = "True"

\* f"system:serviceaccount:{ns}:{name}"
ServiceAccountSubject(ns, name) == SubjectPrefix \o ns \o Colon \o name

\* f"{ki.replace('https://', '')}:sub"
ConditionVariable(ki) == StrReplace(ki, HttpsScheme, <<>>) \o SubSuffix

service_role_assume_policy_app_name(self) ==
    [statements |-> <<
        [effect |-> "Allow",
         principals |-> << [identifiers |-> <<self.openid_connector>>,
                            type |-> "Federated"] >>,
         actions |-> <<"sts:AssumeRoleWithWebIdentity">>,
         conditions |-> <<
            [test |-> "StringEquals",
             variable |-> ConditionVariable(self.kube_issuer),
             values |-> << ServiceAccountSubject(self.namespace,
                                                 self.app_name) >>] >>] >>]

\* aws.iam.get_policy_document(statements=[...]) of the service role
service_role_assume_policy(self) ==
    [statements |-> <<
        [effect |-> "Allow",
         principals |-> << [identifiers |-> <<self.openid_connector>>,
                            type |-> "Federated"] >>,
         actions |-> <<"sts:AssumeRoleWithWebIdentity">>,
         conditions |-> <<
            [test |-> "StringEquals",
             variable |-> ConditionVariable(self.kube_issuer),
             values |-> << ServiceAccountSubject(self.namespace,
                                                 self.name) >>] >>] >>]

RoleName(self) == self.name \o <<"-", "r", "o", "l", "e">>
PolicyName(self) == self.name \o <<"-", "p", "o", "l", "i", "c", "y">>

PoliciesAlways(self) == << [name |-> PolicyName(self), parent |-> self.name] >>

\* if len(self.service_permissions) > 0: self.policy = aws.iam.Policy(...)
Policies(self) ==
    IF Len(self.service_permissions) > 0
    THEN << [name |-> PolicyName(self), parent |-> self.name] >>
    ELSE <<>>

\* if len(self.service_permissions) > 0: aws.iam.RolePolicyAttachment(...)
Attachments(self) ==
    IF Len(self.service_permissions) > 0
    THEN << [role |-> RoleName(self), policy |-> PolicyName(self)] >>
    ELSE <<>>

\* k8s.core.v1.ServiceAccount: metadata name and namespace
ServiceAccount(self) ==
    [name |-> self.name, namespace |-> self.namespace,
     role |-> RoleName(self)]

\* k8s.core.v1.Secret: metadata and string_data
Secrets(self) ==
    [name |-> self.name, namespace |-> self.namespace,
     string_data |-> self.secrets_data]

\* env=[EnvVarArgs(name=k, value=v) for k, v in environment_variables.items()]
EnvVars(environment_variables) ==
    {[name |-> k, value |-> environment_variables[k]] :
        k \in DOMAIN environment_variables}

\* {"app.kubernetes.io/name": self.name}
NameLabel(self) == [k \in {"app.kubernetes.io/name"} |-> self.name]

\* f"{p}-tcp"
PortName(p) == IntToStr(p) \o <<"-", "t", "c", "p">>

\* ports=[ContainerPortArgs(name=f"{p}-tcp", container_port=p) for p in ...]
ContainerPorts(container_ports) ==
    [i \in 1..Len(container_ports) |->
        [name |-> PortName(container_ports[i]),
         container_port |-> container_ports[i]]]

DeploymentWithSecretsInEnv(self) ==
    [name |-> self.name, namespace |-> self.namespace,
     labels |-> {self.name},
     replicas |-> self.replicas,
     container_name |-> self.app_name,
     env |-> EnvVars(self.environment_variables)
                \cup EnvVars(self.secrets_data),
     env_from |-> {Secrets(self).name},
     match_labels |-> NameLabel(self),
     template_labels |-> NameLabel(self),
     ports |-> ContainerPorts(self.container_ports),
     service_account_name |-> ServiceAccount(self).name]

\* k8s.apps.v1.Deployment: metadata, replicas, selector, and the pod
\* template's labels, container environment, ports and service_account_name
Deployment(self) ==
    [name |-> self.name, namespace |-> self.namespace,
     labels |-> {self.name},
     replicas |-> self.replicas,
     container_name |-> self.app_name,
     env |-> EnvVars(self.environment_variables),
     env_from |-> {Secrets(self).name},
     match_labels |-> NameLabel(self),
     template_labels |-> NameLabel(self),
     ports |-> ContainerPorts(self.container_ports),
     service_account_name |-> ServiceAccount(self).name]

AutoscalingOfResourceName(self) ==
    [name |-> self.name, namespace |-> self.namespace,
     scale_target_ref |->
        [kind |-> "Deployment",
         name |-> self.name \o <<"-", "d", "e", "p", "l", "o", "y", "m", "e", "n", "t">>],
     min_replicas |-> HpaMinReplicas,
     max_replicas |-> HpaMaxReplicas]

\* k8s.autoscaling.v2.HorizontalPodAutoscaler: metadata, target and bounds
Autoscaling(self) ==
    [name |-> self.name, namespace |-> self.namespace,
     scale_target_ref |-> [kind |-> "Deployment", name |-> self.name],
     min_replicas |-> HpaMinReplicas,
     max_replicas |-> HpaMaxReplicas]

\* the backquote character, as one character
Backquote == <<"BACKQUOTE">>

HostsReversed(hostname_list) ==
    Join(<<",">>, [i \in 1..Len(hostname_list) |->
                       Backquote \o hostname_list[Len(hostname_list) + 1 - i].name
                           \o Backquote])

\* ",".join([f"<backquote>{h['name']}<backquote>" for h in self.hostname_list])
Hosts(hostname_list) ==
    Join(<<",">>, [i \in 1..Len(hostname_list) |->
                       Backquote \o hostname_list[i].name \o Backquote])

\* f"Host({hosts})"
HostMatch(hostname_list) == <<"H", "o", "s", "t", "(">> \o Hosts(hostname_list) \o <<")">>

\* k8s.core.v1.Service: metadata, ports and selector
Service(self) ==
    [name |-> self.name, namespace |-> self.namespace,
     labels |-> NameLabel(self),
     ports |-> [i \in 1..Len(self.container_ports) |->
                   [port |-> self.container_ports[i],
                    name |-> PortName(self.container_ports[i])]],
     selector |-> NameLabel(self)]

\* if len(self.hostname_list) > 0: self.ingress = CustomResource(...)
Ingress(self) ==
    IF Len(self.hostname_list) > 0
    THEN << [name |-> self.name, namespace |-> self.namespace,
             match |-> HostMatch(self.hostname_list),
             services |-> << [kind |-> "Service", name |-> self.name,
                              namespace |-> self.namespace,
                              port |-> self.ingress_port] >>] >>
    ELSE <<>>

RECURSIVE RecordsFrom(_, _)
\* the loop over enumerate(self.hostname_list), from index i
RecordsFrom(self, i) ==
    IF i > Len(self.hostname_list) THEN <<>>
    ELSE LET rec == self.hostname_list[i]
             rest == RecordsFrom(self, i + 1)
         IN IF GetCreateRecord(rec)
            THEN << [nrec |-> i - 1, name |-> rec.name, type |-> "CNAME",
                     target |-> self.public_load_balancer] >> \o rest
            ELSE rest

\* self.records after the constructor
Records(self) ==
    IF Len(self.hostname_list) > 0
    THEN RecordsFrom(self, 1)
    ELSE <<>>

\* f"{self.name}-record{nrec}" for every record of self.records
RecordChildren(self) ==
    [i \in 1..Len(Records(self)) |->
        Child("aws.route53.Record",
              self.name \o <<"-", "r", "e", "c", "o", "r", "d">> \o IntToStr(Records(self)[i].nrec),
              ResourceId("KubernetesService", self.name))]

\* The resources KubernetesService.__init__ declares, each with its parent.
SvcChildren(self) ==
    LET root == ResourceId("KubernetesService", self.name)
        permitted == Len(self.service_permissions) > 0
    IN (IF permitted
        THEN << Child("aws.iam.Policy", PolicyName(self), root) >>
        ELSE <<>>)
       \o << Child("aws.iam.Role", RoleName(self), root),
              Child("k8s.core.v1.ServiceAccount",
                    self.name \o <<"-", "s", "a">>, root) >>
       \o (IF permitted
           THEN << Child("aws.iam.RolePolicyAttachment",
                         self.name \o <<"-", "r", "o", "l", "e", "a", "t", "t", "a", "c", "h">>, root) >>
           ELSE <<>>)
       \o << Child("k8s.core.v1.Secret",
                    self.name \o <<"-", "s", "e", "c", "r", "e", "t", "s">>, root),
              Child("k8s.apps.v1.Deployment",
                    self.name \o <<"-", "d", "e", "p", "l", "o", "y", "m", "e", "n", "t">>, root),
              Child("k8s.autoscaling.v2.HorizontalPodAutoscaler",
                    self.name \o <<"-", "a", "p", "p", "-", "h", "p", "a">>, root),
              Child("k8s.core.v1.Service",
                    self.name \o <<"-", "s", "e", "r", "v", "i", "c", "e">>, root) >>
       \o (IF Len(self.hostname_list) > 0
           THEN << Child("k8s.apiextensions.CustomResource",
                         self.name \o <<"-", "i", "n", "g">>, root) >>
                \o RecordChildren(self)
           ELSE <<>>)

\* What KubernetesService.__init__(name, args) declares.
KubernetesService(self) ==
    [constructed |-> TRUE,
     self |-> ResourceId("KubernetesService", self.name),
     children |-> SvcChildren(self),
     policies |-> Policies(self),
     assume_role_policy |-> service_role_assume_policy(self),
     role |-> RoleName(self),
     tags |-> self.base_tags,
     sa |-> ServiceAccount(self),
     attachments |-> Attachments(self),
     secrets |-> << Secrets(self) >>,
     deployment |-> Deployment(self),
     autoscaling |-> << Autoscaling(self) >>,
     service |-> << Service(self) >>,
     ingress |-> Ingress(self),
     records |-> Records(self)]

EmptyLabels == [k \in {} |-> <<>>]

NoSvc ==
    [constructed |-> FALSE,
     self |-> ResourceId("KubernetesService", <<>>),
     children |-> <<>>,
     policies |-> <<>>,
     assume_role_policy |-> [statements |-> <<>>],
     role |-> <<>>,
     tags |-> EmptyDict,
     sa |-> [name |-> <<>>, namespace |-> <<>>, role |-> <<>>],
     attachments |-> <<>>,
     secrets |-> <<>>,
     deployment |-> [name |-> <<>>, namespace |-> <<>>, labels |-> {},
                     replicas |-> 0, container_name |-> <<>>, env |-> {},
                     env_from |-> {}, match_labels |-> EmptyLabels,
                     template_labels |-> EmptyLabels, ports |-> <<>>,
                     service_account_name |-> <<>>],
     service |-> <<>>,
     autoscaling |-> <<>>,
     ingress |-> <<>>,
     records |-> <<>>]

SvcInit ==
    /\ svcArgs = NoSvcArgs
    /\ svc = NoSvc

\* KubernetesService.__init__(name, args), for args drawn from S
KubernetesServiceFrom(S) ==
    /\ ~svc.constructed
    /\ \E args \in S :
        /\ svcArgs' = args
        /\ svc' = KubernetesService(args)
    /\ UNCHANGED <<stackVars, dbVars, mainVars, compVars, progVars>>

KubernetesServiceInit == KubernetesServiceFrom(SvcArgSpace)

SvcNext == KubernetesServiceInit

(***************************************************************************)
(* Part III: the RdsDb component                                           *)
(***************************************************************************)

\* Bounds of the inputs of the component.
MaxCidrs == 2
MaxCapacity == 4

\* Defaults of RdsDbArgs and fixed properties of the cluster.
DefaultServerlessMaxCapacity == 3
ServerlessMinCapacity == 2

\* Python's None, and a present value, for an optional property.
None == [some |-> FALSE, value |-> <<>>]
NoneStr == [some |-> FALSE, value |-> ""]
NoneInt == [some |-> FALSE, value |-> 0]
NoneDict == [some |-> FALSE, value |-> EmptyDict]
Some(v) == [some |-> TRUE, value |-> v]

DbNames == {<<"a">>, <<"d", "b">>, <<>>}
CidrLists == SeqsUpTo({"10.0.0.0/16", "0.0.0.0/0"}, MaxCidrs)

DbArgSpace ==
    [name : DbNames,
     base_tags : {ExampleTags},
     cidr_blocks : CidrLists,
     is_prod_database : BOOLEAN,
     serverless_max_capacity : ServerlessMinCapacity..MaxCapacity]

NoDbArgs ==
    [name |-> <<>>, base_tags |-> EmptyDict, cidr_blocks |-> <<>>,
     is_prod_database |-> FALSE,
     serverless_max_capacity |-> DefaultServerlessMaxCapacity]

\* self.db_password = random.RandomPassword(...,
\*     opts=ResourceOptions(additional_secret_outputs=['result']))
DbPassword(self) ==
    [name |-> self.name \o <<"-", "d", "b", "-", "m", "y", "s", "q", "l", "-", "p", "a", "s", "s", "w", "o", "r", "d">>,
     result |-> Secret("db-password")]

\* f"{self.name}-db-cluster"
ClusterName(self) == self.name \o <<"-", "d", "b", "-", "c", "l", "u", "s", "t", "e", "r">>

\* final_snapshot_identifier=f"{self.name}-db-cluster" if self.is_prod_database else None
FinalSnapshotIdentifier(self) ==
    IF self.is_prod_database THEN Some(ClusterName(self)) ELSE None

SkipFinalSnapshotAlways(self) == TRUE

\* skip_final_snapshot=not self.is_prod_database
SkipFinalSnapshot(self) == ~self.is_prod_database

\* self.serverless_db = aws.rds.Cluster(...)
ServerlessDb(self) ==
    [cluster_identifier_prefix |-> ClusterName(self),
     database_name |-> "demoapp",
     final_snapshot_identifier |-> FinalSnapshotIdentifier(self),
     master_username |-> "root",
     master_password |-> DbPassword(self).result,
     skip_final_snapshot |-> SkipFinalSnapshot(self),
     min_capacity |-> ServerlessMinCapacity,
     max_capacity |-> self.serverless_max_capacity,
     ingress_cidr_blocks |-> self.cidr_blocks,
     storage_encrypted |-> TRUE,
     tags |-> self.base_tags]

\* self.db_proxy_secret = aws.secretsmanager.Secret(...)
DbProxySecret(self) ==
    [name |-> self.name \o <<"-", "d", "b", "-", "p", "r", "o", "x", "y", "-", "s", "e", "c", "r", "e", "t">>,
     description |-> Plain("Secret for the RDS proxy"),
     tags |-> self.base_tags]

\* json.dumps({"username": "root", "password": p})
ProxyCredentials(p) == [username |-> "root", password |-> p]

\* self.db_password.result.apply(lambda p: json.dumps(...)): the result of
\* apply is a secret iff the output it is applied to is
SecretString(result) ==
    [val |-> ProxyCredentials(result.val), secret |-> result.secret]

\* self.db_proxy_secret_version = aws.secretsmanager.SecretVersion(...)
DbProxySecretVersion(self) ==
    [name |-> self.name \o <<"-", "d", "b", "-", "p", "r", "o", "x", "y", "-", "s", "e", "c", "r", "e", "t">>,
     secret_id |-> DbProxySecret(self).name,
     secret_string |-> SecretString(DbPassword(self).result)]

\* self.db_record / self.db_proxy_record = aws.route53.Record(...)
DbRecords(self) ==
    << [name |-> "db", type |-> "CNAME", records |-> <<"cluster-endpoint">>],
       [name |-> "db-proxy", type |-> "CNAME",
        records |-> <<"proxy-endpoint">>] >>

\* The resources RdsDb.__init__ declares, each with its parent.
DbChildren(self) ==
    LET root == ResourceId("RdsDb", self.name)
    IN <<
        Child("aws.rds.ParameterGroup",
              self.name \o <<"-", "d", "b", "-", "m", "y", "s", "q", "l", "-", "8", ".", "0">>,
              root),
        Child("aws.rds.SubnetGroup",
              self.name \o <<"-", "d", "b", "-", "s", "u", "b", "n", "e", "t">>,
              root),
        Child("aws.ec2.SecurityGroup",
              self.name \o <<"-", "d", "b", "-", "s", "e", "c", "u", "r", "i", "t", "y", "-", "g", "r", "o", "u", "p">>,
              root),
        Child("random.RandomPassword",
              self.name \o <<"-", "d", "b", "-", "m", "y", "s", "q", "l", "-", "p", "a", "s", "s", "w", "o", "r", "d">>,
              root),
        Child("aws.rds.Cluster",
              self.name \o <<"-", "d", "b", "-", "c", "l", "u", "s", "t", "e", "r">>,
              root),
        Child("aws.rds.ClusterInstance",
              self.name \o <<"-", "d", "b", "-", "i", "n", "s", "t", "a", "n", "c", "e">>,
              root),
        Child("aws.secretsmanager.Secret",
              self.name \o <<"-", "d", "b", "-", "p", "r", "o", "x", "y", "-", "s", "e", "c", "r", "e", "t">>,
              root),
        Child("aws.secretsmanager.SecretVersion",
              self.name \o <<"-", "d", "b", "-", "p", "r", "o", "x", "y", "-", "s", "e", "c", "r", "e", "t">>,
              root),
        Child("aws.iam.Role",
              self.name \o <<"-", "d", "b", "-", "p", "r", "o", "x", "y", "-", "r", "o", "l", "e">>,
              root),
        Child("aws.rds.Proxy",
              self.name \o <<"-", "d", "b", "-", "p", "r", "o", "x", "y">>,
              root),
        Child("aws.rds.ProxyDefaultTargetGroup",
              self.name \o <<"-", "d", "b", "-", "p", "r", "o", "x", "y", "-", "d", "e", "f", "a", "u", "l", "t", "-", "t", "a", "r", "g", "e", "t", "-", "g", "r", "o", "u", "p">>,
              root),
        Child("aws.rds.ProxyTarget",
              self.name \o <<"-", "d", "b", "-", "p", "r", "o", "x", "y", "-", "t", "a", "r", "g", "e", "t", "-", "g", "r", "o", "u", "p">>,
              root),
        Child("aws.rds.ProxyEndpoint",
              self.name \o <<"-", "d", "b", "-", "p", "r", "o", "x", "y", "-", "e", "n", "d", "p", "o", "i", "n", "t">>,
              root),
        Child("aws.route53.Record",
              self.name \o <<"-", "d", "b", "-", "r", "e", "c", "o", "r", "d">>,
              root),
        Child("aws.route53.Record",
              self.name \o <<"-", "d", "b", "-", "p", "r", "o", "x", "y", "-", "r", "e", "c", "o", "r", "d">>,
              root)
    >>

\* What RdsDb.__init__(name, args) declares.
RdsDb(self) ==
    [constructed |-> TRUE,
     self |-> ResourceId("RdsDb", self.name),
     children |-> DbChildren(self),
     db_password |-> DbPassword(self),
     serverless_db |-> ServerlessDb(self),
     db_proxy_secret |-> DbProxySecret(self),
     db_proxy_secret_version |-> DbProxySecretVersion(self),
     records |-> DbRecords(self)]

NoDb ==
    [constructed |-> FALSE,
     self |-> ResourceId("RdsDb", <<>>),
     children |-> <<>>,
     db_password |-> [name |-> <<>>, result |-> Plain("")],
     serverless_db |->
        [cluster_identifier_prefix |-> <<>>,
         database_name |-> "",
         final_snapshot_identifier |-> None,
         master_username |-> "",
         master_password |-> Plain(""),
         skip_final_snapshot |-> FALSE,
         min_capacity |-> 0,
         max_capacity |-> 0,
         ingress_cidr_blocks |-> <<>>,
         storage_encrypted |-> FALSE,
         tags |-> EmptyDict],
     db_proxy_secret |->
        [name |-> <<>>, description |-> Plain(""), tags |-> EmptyDict],
     db_proxy_secret_version |->
        [name |-> <<>>, secret_id |-> <<>>,
         secret_string |-> [val |-> ProxyCredentials(""), secret |-> FALSE]],
     records |-> <<>>]

DbInit ==
    /\ dbArgs = NoDbArgs
    /\ db = NoDb

\* RdsDb.__init__(name, args), for args drawn from S
RdsDbFrom(S) ==
    /\ ~db.constructed
    /\ \E args \in S :
        /\ dbArgs' = args
        /\ db' = RdsDb(args)
    /\ UNCHANGED <<stackVars, svcVars, mainVars, compVars, progVars>>

RdsDbInit == RdsDbFrom(DbArgSpace)

DbNext == RdsDbInit

(***************************************************************************)
(* Part IV: the database and application programs, with their values       *)
(*                                                                         *)
(* db/__main__.py and app/__main__.py evaluated in one step each, against  *)
(* upstream stacks that are applied, keeping the values that flow from the *)
(* configuration and from the database stack's outputs into the resources. *)
(***************************************************************************)

\* envName: the stack names in 'organization/db/db-demo' and its like
DbEnvName == <<"d", "b", "-", "d", "e", "m", "o">>
AppEnvName == <<"a", "p", "p", "-", "d", "e", "m", "o">>

\* Configuration values of the database stack; None for an absent key.
DbConfSpace ==
    [cidr_blocks : CidrLists,
     db_major_version : {NoneStr, Some("8.0")},
     db_storage_size : {NoneStr, Some("20")}]

NoDbConf ==
    [cidr_blocks |-> <<>>, db_major_version |-> NoneStr,
     db_storage_size |-> NoneStr]

\* RdsDbArgs(base_tags=BASE_TAGS, cidr_blocks=..., ...) as the constructor
\* stores it: is_prod_database and serverless_max_capacity at their defaults
DbArgs(conf) ==
    [name |-> DbEnvName \o <<"-", "d", "b">>,
     base_tags |-> ExampleTags,
     cidr_blocks |-> conf.cidr_blocks,
     is_prod_database |-> FALSE,
     serverless_max_capacity |-> DefaultServerlessMaxCapacity]

\* pulumi.export('db_admin_username', db.serverless_db.master_username)
\* pulumi.export('db_admin_password', db.db_password.result)
DbExports(component) ==
    [db_admin_username |-> Plain(component.serverless_db.master_username),
     db_admin_password |-> component.db_password.result]

NoDbRun ==
    [evaluated |-> FALSE, error |-> "", db |-> NoDb, exports |-> EmptyDict]

\* One evaluation of db/__main__.py.
DbMain ==
    /\ ~dbRun.evaluated
    /\ \E conf \in DbConfSpace :
        /\ dbCfg' = conf
        /\ dbRun' =
            IF ~conf.db_major_version.some
            THEN [evaluated |-> TRUE, error |-> "config", db |-> NoDb,
                  exports |-> EmptyDict]
            ELSE IF ~CallBinds("RdsDbArgs", DbKwargs)
            THEN [evaluated |-> TRUE, error |-> "TypeError", db |-> NoDb,
                  exports |-> EmptyDict]
            ELSE [evaluated |-> TRUE, error |-> "", db |-> RdsDb(DbArgs(conf)),
                  exports |-> DbExports(RdsDb(DbArgs(conf)))]
    /\ UNCHANGED <<stackVars, svcVars, dbVars, appCfg, appRun, compVars, progVars>>

\* config.get_int: an integer, or None for an absent key
OptReplicas == {NoneInt} \cup {Some(n) : n \in 1..MaxReplicas}

\* Configuration values of the application stack; None for an absent key.
AppConfSpace ==
    [app_min_replicas : OptReplicas,
     app_max_replicas : OptReplicas,
     app_hostnames : {None, Some(<<>>),
                      Some(<< [name |-> <<"u">>, create_record |-> "unset"] >>)},
     app_secrets : {NoneDict, Some(EmptyDict),
                    Some([API_KEY |-> Plain("key")])}]

NoAppConf ==
    [app_min_replicas |-> NoneInt, app_max_replicas |-> NoneInt,
     app_hostnames |-> None, app_secrets |-> NoneDict]

\* default_secrets = {'DB_USERNAME': db_stack.require_output(...), ...}
DefaultSecrets(exports) ==
    [DB_USERNAME |-> exports.db_admin_username,
     DB_PASSWORD |-> exports.db_admin_password]

\* What a KubernetesServiceArgs built from the keywords of the application
\* stack holds; no keyword supplies replicas.
AppArgs(conf, exports) ==
    [NoSvcArgs EXCEPT
        !.name = AppEnvName \o <<"-", "a", "p", "p">>,
        !.base_tags = ExampleTags,
        !.app_name = AppName,
        !.namespace = ExampleNamespace,
        !.kube_issuer = ExampleIssuer,
        !.openid_connector = "oidc-arn",
        !.public_load_balancer = "alb-dns",
        !.service_permissions = <<>>,
        !.hostname_list = conf.app_hostnames.value,
        !.container_ports = << 3000 >>,
        !.ingress_port = 3000,
        !.environment_variables = ExampleEnv,
        !.secrets_data = DictMerge(DefaultSecrets(exports),
                                   conf.app_secrets.value)]

NoAppRun == [evaluated |-> FALSE, error |-> "", app |-> NoSvc]

\* One evaluation of app/__main__.py, the database stack being applied.
AppMain ==
    /\ dbRun.evaluated /\ dbRun.error = ""
    /\ ~appRun.evaluated
    /\ \E conf \in AppConfSpace :
        /\ appCfg' = conf
        /\ appRun' =
            IF ~conf.app_secrets.some
            THEN [evaluated |-> TRUE, error |-> "unpack", app |-> NoSvc]
            ELSE IF ~CallBinds("KubernetesServiceArgs", AppKwargs)
            THEN [evaluated |-> TRUE, error |-> "TypeError", app |-> NoSvc]
            ELSE IF ~conf.app_hostnames.some
            THEN \* len(None)
                 [evaluated |-> TRUE, error |-> "TypeError", app |-> NoSvc]
            ELSE [evaluated |-> TRUE, error |-> "",
                  app |-> KubernetesService(AppArgs(conf, dbRun.exports))]
    /\ UNCHANGED <<stackVars, svcVars, dbVars, dbCfg, dbRun, compVars, progVars>>

\* A KubernetesService built directly from workload data.
KubernetesServiceData == KubernetesServiceFrom(SvcDataArgs)

MainInit ==
    /\ dbCfg = NoDbConf
    /\ dbRun = NoDbRun
    /\ appCfg = NoAppConf
    /\ appRun = NoAppRun

MainNext == DbMain \/ AppMain \/ KubernetesServiceData

(***************************************************************************)
(* Part V: the resource trees of the components                            *)
(*                                                                         *)
(* Every component constructor, reduced to the resources it declares and   *)
(* the parent each declaration names, for components that live side by     *)
(* side in one deployment.                                                 *)
(***************************************************************************)

\* Bound of the number of domain validation options of a certificate.
MaxDvo == 2

\* Names given to the components.
CompNames == {<<"d", "e", "m", "o">>, <<"k">>}

\* hostname lists that differ in the records they ask for
TreeHostLists ==
    {<<>>,
     << [name |-> <<"u">>, create_record |-> "unset"] >>,
     << [name |-> <<"u">>, create_record |-> "False"],
        [name |-> <<"v">>, create_record |-> "unset"] >>}

SvcTreeArgs ==
    {[name |-> n,
      base_tags |-> ExampleTags,
      app_name |-> AppName,
      namespace |-> ExampleNamespace,
      kube_issuer |-> ExampleIssuer,
      openid_connector |-> "oidc-arn",
      public_load_balancer |-> "alb-dns",
      service_permissions |-> sp,
      hostname_list |-> hl,
      container_ports |-> << 3000 >>,
      ingress_port |-> 3000,
      replicas |-> 1,
      environment_variables |-> ExampleEnv,
      secrets_data |-> ExampleSecrets] :
        n \in CompNames, sp \in PermLists, hl \in TreeHostLists}

DbTreeArgs ==
    [name : CompNames,
     base_tags : {ExampleTags},
     cidr_blocks : {<<>>},
     is_prod_database : {FALSE},
     serverless_max_capacity : {DefaultServerlessMaxCapacity}]

\* The resources EKS.__init__ declares, each with its parent.
EksChildren(self) ==
    LET root == ResourceId("EKS", self.name)
        eks_cluster ==
            ResourceId("aws.eks.Cluster",
                       <<"e", "k", "s", "-", "c", "l", "u", "s", "t", "e", "r">>)
        eks_node_sec_grp ==
            ResourceId("aws.ec2.SecurityGroup",
                       self.name \o <<"-", "n", "o", "d", "e", "-", "s", "e", "c", "-", "g", "r", "p">>)
    IN <<
        Child("aws.iam.Role",
              <<"e", "k", "s", "-", "i", "a", "m", "-", "r", "o", "l", "e">>,
              root),
        Child("aws.iam.RolePolicyAttachment",
              <<"e", "k", "s", "-", "s", "e", "r", "v", "i", "c", "e", "-", "p", "o", "l", "i", "c", "y", "-", "a", "t", "t", "a", "c", "h", "m", "e", "n", "t">>,
              root),
        Child("aws.iam.RolePolicyAttachment",
              <<"e", "k", "s", "-", "c", "l", "u", "s", "t", "e", "r", "-", "p", "o", "l", "i", "c", "y", "-", "a", "t", "t", "a", "c", "h", "m", "e", "n", "t">>,
              root),
        Child("aws.iam.Role",
              <<"e", "c", "2", "-", "n", "o", "d", "e", "g", "r", "o", "u", "p", "-", "i", "a", "m", "-", "r", "o", "l", "e">>,
              root),
        Child("aws.iam.RolePolicyAttachment",
              <<"e", "k", "s", "-", "w", "o", "r", "k", "e", "r", "n", "o", "d", "e", "-", "p", "o", "l", "i", "c", "y", "-", "a", "t", "t", "a", "c", "h", "m", "e", "n", "t">>,
              root),
        Child("aws.iam.RolePolicyAttachment",
              <<"e", "k", "s", "-", "c", "n", "i", "-", "p", "o", "l", "i", "c", "y", "-", "a", "t", "t", "a", "c", "h", "m", "e", "n", "t">>,
              root),
        Child("aws.iam.RolePolicyAttachment",
              <<"e", "c", "2", "-", "c", "o", "n", "t", "a", "i", "n", "e", "r", "-", "r", "o", "-", "p", "o", "l", "i", "c", "y", "-", "a", "t", "t", "a", "c", "h", "m", "e", "n", "t">>,
              root),
        Child("aws.iam.RolePolicyAttachment",
              <<"e", "c", "2", "-", "e", "b", "s", "-", "c", "s", "i", "-", "p", "o", "l", "i", "c", "y", "-", "a", "t", "t", "a", "c", "h", "m", "e", "n", "t">>,
              root),
        Child("aws.iam.RolePolicyAttachment",
              <<"s", "s", "m", "-", "s", "e", "s", "s", "i", "o", "n", "-", "p", "o", "l", "i", "c", "y", "-", "a", "t", "t", "a", "c", "h", "m", "e", "n", "t">>,
              root),
        Child("aws.ec2.SecurityGroup",
              <<"e", "k", "s", "-", "c", "l", "u", "s", "t", "e", "r", "-", "s", "g">>,
              root),
        Child("aws.eks.Cluster",
              <<"e", "k", "s", "-", "c", "l", "u", "s", "t", "e", "r">>,
              root),
        Child("aws.iam.OpenIdConnectProvider",
              self.name \o <<"-", "o", "i", "d", "c", "-", "p", "r", "o", "v", "i", "d", "e", "r">>,
              eks_cluster),
        Child("aws.ec2.SecurityGroup",
              self.name \o <<"-", "a", "l", "b", "-", "s", "e", "c", "-", "g", "r", "p">>,
              root),
        Child("aws.lb.LoadBalancer",
              self.name \o <<"-", "e", "k", "s", "-", "l", "b">>,
              root),
        Child("aws.lb.TargetGroup",
              self.name \o <<"-", "e", "k", "s", "-", "l", "b", "-", "t", "g">>,
              root),
        Child("aws.lb.Listener",
              self.name \o <<"-", "e", "k", "s", "-", "l", "b", "-", "h", "t", "t", "p", "-", "l", "i", "s", "t", "e", "n", "e", "r">>,
              root),
        Child("aws.lb.Listener",
              self.name \o <<"-", "e", "k", "s", "-", "l", "b", "-", "h", "t", "t", "p", "s", "-", "l", "i", "s", "t", "e", "n", "e", "r">>,
              root),
        Child("aws.ec2.SecurityGroup",
              self.name \o <<"-", "n", "o", "d", "e", "-", "s", "e", "c", "-", "g", "r", "p">>,
              root),
        Child("aws.ec2.SecurityGroupRule",
              self.name \o <<"-", "n", "o", "d", "e", "-", "s", "e", "c", "-", "g", "r", "p", "-", "s", "e", "l", "f">>,
              eks_node_sec_grp),
        Child("aws.ec2.SecurityGroupRule",
              self.name \o <<"-", "n", "o", "d", "e", "-", "s", "e", "c", "-", "g", "r", "p", "-", "c", "l", "u", "s", "t", "e", "r">>,
              eks_node_sec_grp),
        Child("aws.ec2.SecurityGroupRule",
              self.name \o <<"-", "n", "o", "d", "e", "-", "s", "e", "c", "-", "g", "r", "p", "-", "s", "s", "h">>,
              eks_node_sec_grp),
        Child("aws.ec2.SecurityGroupRule",
              self.name \o <<"-", "n", "o", "d", "e", "-", "s", "e", "c", "-", "g", "r", "p", "-", "a", "p", "p">>,
              eks_node_sec_grp),
        Child("aws.iam.InstanceProfile",
              self.name \o <<"-", "n", "o", "d", "e", "-", "i", "n", "s", "t", "a", "n", "c", "e", "-", "p", "r", "o", "f", "i", "l", "e">>,
              root),
        Child("aws.ec2.LaunchTemplate",
              self.name \o <<"-", "n", "o", "d", "e", "-", "l", "a", "u", "n", "c", "h", "-", "t", "e", "m", "p", "l", "a", "t", "e">>,
              root),
        Child("aws.autoscaling.Group",
              self.name \o <<"-", "n", "o", "d", "e", "-", "a", "s", "g">>,
              root),
        Child("aws.iam.Policy",
              self.name \o <<"-", "e", "k", "s", "-", "a", "u", "t", "o", "s", "c", "a", "l", "e", "r", "-", "p", "o", "l", "i", "c", "y">>,
              root),
        Child("aws.iam.Role",
              self.name \o <<"-", "e", "k", "s", "-", "a", "u", "t", "o", "s", "c", "a", "l", "e", "r", "-", "r", "o", "l", "e">>,
              root),
        Child("aws.iam.RolePolicyAttachment",
              self.name \o <<"-", "e", "k", "s", "-", "a", "u", "t", "o", "s", "c", "a", "l", "e", "r", "-", "a", "t", "t", "a", "c", "h">>,
              root),
        Child("aws.autoscaling.Policy",
              self.name \o <<"-", "a", "s", "g", "-", "p", "o", "l", "i", "c", "y">>,
              root),
        Child("aws.cloudwatch.MetricAlarm",
              self.name \o <<"-", "e", "k", "s", "-", "c", "p", "u", "-", "a", "l", "a", "r", "m">>,
              root)
    >>

\* The resources ServicesResources.__init__ declares, each with its parent.
ServicesChildren(self) ==
    LET root == ResourceId("ServicesResources", self.name)
        ecr_repo ==
            ResourceId("aws.ecr.Repository",
                       self.name \o <<"-", "e", "c", "r", "-", "r", "e", "p", "o", "s", "i", "t", "o", "r", "y">>)
    IN <<
        Child("k8s.core.v1.ConfigMap",
              self.name \o <<"-", "k", "a", "u", "t", "h">>,
              root),
        Child("k8s.yaml.ConfigFile",
              self.name \o <<"-", "m", "e", "t", "r", "i", "c", "-", "s", "e", "r", "v", "e", "r">>,
              root),
        Child("k8s.helm.v3.Release",
              self.name \o <<"-", "e", "b", "s", "-", "c", "s", "i">>,
              root),
        Child("k8s.core.v1.Namespace",
              self.name \o <<"-", "t", "r", "a", "e", "f", "i", "k", "-", "n", "s">>,
              root),
        Child("k8s.helm.v3.Release",
              self.name \o <<"-", "t", "r", "a", "e", "f", "i", "k">>,
              root),
        Child("aws.ecr.Repository",
              self.name \o <<"-", "e", "c", "r", "-", "r", "e", "p", "o", "s", "i", "t", "o", "r", "y">>,
              root),
        Child("aws.ecr.LifecyclePolicy",
              self.name \o <<"-", "l", "i", "f", "e", "c", "y", "c", "l", "e", "-", "p", "o", "l", "i", "c", "y">>,
              ecr_repo)
    >>

\* The resource Certs.__init__ declares, with its parent.
CertsChildren(self) ==
    << Child("aws.acm.Certificate",
             self.name \o <<"-", "c", "e", "r", "t", "i", "f", "i", "c", "a", "t", "e">>,
             ResourceId("Certs", self.name)) >>

RECURSIVE DvoRecordsFrom(_, _, _)
\* iterate_records(dvo), from index num: a record for every validation
\* option whose record name lies in the zone, parented by the certificate
DvoRecordsFrom(self, dvo, num) ==
    IF num >= Len(dvo) THEN <<>>
    ELSE (IF dvo[num + 1]
          THEN << Child("aws.route53.Record",
                        self.name \o <<"-", "d", "v", "o", "-", "r", "e", "c", "o", "r", "d", "s", "-">> \o IntToStr(num),
                        ResourceId("aws.acm.Certificate",
                                   self.name \o <<"-", "c", "e", "r", "t", "i", "f", "i", "c", "a", "t", "e">>)) >>
          ELSE <<>>)
         \o DvoRecordsFrom(self, dvo, num + 1)

KAuthChildrenUnderEks(self) ==
    << Child("k.core.v1.ConfigMap",
             self.name \o <<"-", "a", "u", "t", "h", "-", "c", "m">>,
             ResourceId("EKS", self.name)) >>

\* The resource KAuth.__init__ declares, with its parent.
KAuthChildren(self) ==
    << Child("k.core.v1.ConfigMap",
             self.name \o <<"-", "a", "u", "t", "h", "-", "c", "m">>,
             ResourceId("Kauth", self.name)) >>

\* Bound of the number of admin users handed to ServicesResources.
MaxUsers == 2

\* ARNs of admin users, and ARNs a worker role can have
UserArns == {<<"u", "/", "a">>, <<"u", "/", "p", "/", "b">>}
UserLists == SeqsUpTo(UserArns, MaxUsers)
CiRoleArn == "arn:aws:iam::389169665533:role/ci-role"
WorkerRoleArns == {"arn:aws:iam::389169665533:role/worker", CiRoleArn}

\* Arguments that vary the name of the component.
ServicesTreeArgs ==
    [name : CompNames,
     kube_users : {<< <<"u", "/", "a">> >>},
     worker_role_arn : {"arn:aws:iam::389169665533:role/worker"}]

\* Arguments that vary the identities handed to the component.
ServicesAuthArgs ==
    [name : {<<"d", "e", "m", "o">>},
     kube_users : UserLists,
     worker_role_arn : WorkerRoleArns]

RECURSIVE LastSegment(_)
\* s.split('/')[-1]: what follows the last '/', all of s when it has none
LastSegment(s) ==
    IF s = <<>> THEN <<>>
    ELSE IF s[Len(s)] = "/" THEN <<>>
    ELSE LastSegment(SubSeq(s, 1, Len(s) - 1)) \o << s[Len(s)] >>

\* node_cluster_map_users: one entry per user of self.kube_users
node_cluster_map_users(kube_users) ==
    [i \in 1..Len(kube_users) |->
        [userarn |-> kube_users[i],
         username |-> LastSegment(kube_users[i]),
         groups |-> {"system:masters"}]]

\* ServicesResources.get_node_roles(worker_role): the list it dumps
get_node_roles(worker_role) ==
    << [rolearn |-> worker_role,
        username |-> "system:node:{{EC2PrivateDNSName}}",
        groups |-> {"system:bootstrappers", "system:nodes"}],
       [rolearn |-> CiRoleArn,
        username |-> "ci-user",
        groups |-> {"system:masters"}] >>

\* self.cluster_auth: the ConfigMap's metadata and the lists of its data
ClusterAuth(self) ==
    [name |-> "aws-auth", namespace |-> "kube-system",
     mapRoles |-> get_node_roles(self.worker_role_arn),
     mapUsers |-> node_cluster_map_users(self.kube_users)]

\* self.traefik: the ports and the service type among the chart's values
Traefik(self) ==
    [ports |-> [traefik |-> [expose |-> TRUE, exposedPort |-> 9000,
                             nodePort |-> 30900],
                web |-> [expose |-> TRUE, nodePort |-> 32080]],
     service |-> [type |-> "NodePort"]]

\* What ServicesResources.__init__(name, args) declares.
ServicesResources(self) ==
    [constructed |-> TRUE,
     self |-> ResourceId("ServicesResources", self.name),
     children |-> ServicesChildren(self),
     kube_users |-> self.kube_users,
     worker_role_arn |-> self.worker_role_arn,
     cluster_auth |-> ClusterAuth(self),
     traefik |-> Traefik(self)]

NoServices ==
    [constructed |-> FALSE,
     self |-> ResourceId("ServicesResources", <<>>),
     children |-> <<>>,
     kube_users |-> <<>>,
     worker_role_arn |-> "",
     cluster_auth |-> [name |-> "", namespace |-> "", mapRoles |-> <<>>,
                       mapUsers |-> <<>>],
     traefik |-> [ports |-> [traefik |-> [expose |-> FALSE, exposedPort |-> 0,
                                          nodePort |-> 0],
                             web |-> [expose |-> FALSE, nodePort |-> 0]],
                  service |-> [type |-> ""]]]

\* A Python value that is an int, a str or None.
PyInt(n) == [type |-> "int", int |-> n, str |-> <<>>]
PyStr(t) == [type |-> "str", int |-> 0, str |-> t]
PyNone == [type |-> "NoneType", int |-> 0, str |-> <<>>]

\* EksArgs.__init__: worker_max_size and worker_min_size take their
\* defaults when the call does not pass them
EksArgsInit(kw) ==
    [name |-> kw.name,
     base_tags |-> kw.base_tags,
     worker_max_size |-> IF "worker_max_size" \in DOMAIN kw
                         THEN kw.worker_max_size ELSE PyInt(10),
     worker_min_size |-> IF "worker_min_size" \in DOMAIN kw
                         THEN kw.worker_min_size ELSE PyInt(2)]

OidcProviderArnPrefix ==
    <<"a", "r", "n", ":", "a", "w", "s", ":", "i", "a", "m", ":", ":", "1", "2", "3", "4", "5", "6", "7", "8", "9", "0", "1", "2", ":", "o", "i", "d", "c", "-", "p", "r", "o", "v", "i", "d", "e", "r", "/">>

\* self.openid_connector.arn: the provider's ARN names the issuer URL
\* without its scheme
OidcProviderArn(url) ==
    OidcProviderArnPrefix \o
        (IF StartsWith(url, HttpsScheme)
         THEN SubSeq(url, Len(HttpsScheme) + 1, Len(url))
         ELSE url)

\* o.split('/', 1)[1]: what follows the first '/' of o
AfterFirstSlash(o) ==
    LET first == CHOOSE i \in 1..Len(o) :
                    o[i] = "/" /\ \A j \in 1..(i - 1) : o[j] # "/"
    IN SubSeq(o, first + 1, Len(o))

\* variable=f"{o.split('/',1)[1]}:sub" of eks_autoscaler_role
AutoscalerVariable(o) == AfterFirstSlash(o) \o SubSuffix

TargetGroupOnPort80(self) ==
    [port |-> 80,
     protocol |-> "HTTP",
     health_check |-> [path |-> "/ping", port |-> <<"3", "0", "9", "0", "0">>,
                       interval |-> 30]]

\* eks_alb_tg: the traffic port and the health check of the target group
TargetGroup(self) ==
    [port |-> 32080,
     protocol |-> "HTTP",
     health_check |-> [path |-> "/ping", port |-> <<"3", "0", "9", "0", "0">>,
                       interval |-> 30]]

\* the SecurityGroupRule '<name>-node-sec-grp-app'
NodeSecGrpApp(self) ==
    [type |-> "ingress", from_port |-> 30000, to_port |-> 32800,
     protocol |-> "tcp", cidr_blocks |-> << "10.0.0.0/8" >>]

\* eks_node_autoscaling: the bounds of the worker capacity group
NodeAutoscaling(self) ==
    [max_size |-> self.worker_max_size,
     min_size |-> self.worker_min_size]

\* What EKS.__init__(name, args) declares, for a cluster whose identity
\* provider has the given issuer URL.
EKS(self, issuer) ==
    [constructed |-> TRUE,
     self |-> ResourceId("EKS", self.name),
     children |-> EksChildren(self),
     issuer |-> issuer,
     openid_connector |-> [url |-> issuer, arn |-> OidcProviderArn(issuer)],
     alb_tg |-> TargetGroup(self),
     node_sec_grp_app |-> NodeSecGrpApp(self),
     node_autoscaling |-> NodeAutoscaling(self),
     autoscaler_role |->
        [variable |-> AutoscalerVariable(OidcProviderArn(issuer)),
         values |-> << "system:serviceaccount:kube-system:cluster-autoscaler" >>]]

NoEks ==
    [constructed |-> FALSE,
     self |-> ResourceId("EKS", <<>>),
     children |-> <<>>,
     issuer |-> <<>>,
     openid_connector |-> [url |-> <<>>, arn |-> <<>>],
     alb_tg |-> [port |-> 0, protocol |-> "",
                 health_check |-> [path |-> "", port |-> <<>>,
                                   interval |-> 0]],
     node_sec_grp_app |-> [type |-> "", from_port |-> 0, to_port |-> 0,
                           protocol |-> "", cidr_blocks |-> <<>>],
     node_autoscaling |-> [max_size |-> PyNone, min_size |-> PyNone],
     autoscaler_role |-> [variable |-> <<>>, values |-> <<>>]]

NoComponent(type) ==
    [constructed |-> FALSE, self |-> ResourceId(type, <<>>),
     children |-> <<>>]

CompInit ==
    /\ eks = NoEks
    /\ certs = [NoComponent("Certs") EXCEPT !.constructed = "no"]
    /\ svcs = NoServices
    /\ kauth = NoComponent("Kauth")

\* EKS.__init__(name, args), the sizes left to the defaults of EksArgs
EKSInit ==
    /\ ~eks.constructed
    /\ \E n \in CompNames :
        eks' = EKS(EksArgsInit([name |-> n, base_tags |-> ExampleTags]),
                   ExampleIssuer)
    /\ UNCHANGED <<stackVars, svcVars, dbVars, mainVars, certs, svcs, kauth, progVars>>

\* Certs.__init__(name, args); the validation options are not known yet
CertsInit ==
    /\ certs.constructed = "no"
    /\ \E n \in CompNames :
        certs' = [constructed |-> "yes", self |-> ResourceId("Certs", n),
                  children |-> CertsChildren([name |-> n])]
    /\ UNCHANGED <<stackVars, svcVars, dbVars, mainVars, eks, svcs, kauth, progVars>>

\* the callback of self.cert.domain_validation_options.apply(...)
iterate_records ==
    /\ certs.constructed = "yes"
    /\ \E dvo \in SeqsUpTo(BOOLEAN, MaxDvo) :
        certs' = [certs EXCEPT
                    !.constructed = "resolved",
                    !.children = certs.children
                        \o DvoRecordsFrom([name |-> certs.self.name], dvo, 0)]
    /\ UNCHANGED <<stackVars, svcVars, dbVars, mainVars, eks, svcs, kauth, progVars>>

\* ServicesResources.__init__(name, args), for args drawn from S
ServicesResourcesFrom(S) ==
    /\ ~svcs.constructed
    /\ \E args \in S : svcs' = ServicesResources(args)
    /\ UNCHANGED <<stackVars, svcVars, dbVars, mainVars, eks, certs, kauth, progVars>>

ServicesResourcesTree == ServicesResourcesFrom(ServicesTreeArgs)

\* KAuth.__init__(name, args)
KAuthInit ==
    /\ ~kauth.constructed
    /\ \E n \in CompNames :
        kauth' = [constructed |-> TRUE, self |-> ResourceId("Kauth", n),
                  children |-> KAuthChildren([name |-> n])]
    /\ UNCHANGED <<stackVars, svcVars, dbVars, mainVars, eks, certs, svcs, progVars>>

KubernetesServiceTree == KubernetesServiceFrom(SvcTreeArgs)

RdsDbTree == RdsDbFrom(DbTreeArgs)

CompNext ==
    \/ EKSInit
    \/ CertsInit
    \/ iterate_records
    \/ ServicesResourcesTree
    \/ KAuthInit
    \/ KubernetesServiceTree
    \/ RdsDbTree

(***************************************************************************)
(* Part VI: the cluster and its services                                   *)
(*                                                                         *)
(* eks/__main__.py evaluated in one step with its values, next to the      *)
(* ServicesResources component and a KubernetesService that consume what   *)
(* the cluster publishes.                                                  *)
(***************************************************************************)

\* Issuer URLs of the form https://<host>/<path>.
ClusterIssuers ==
    {ki \in Issuers : StartsWith(ki, HttpsScheme \o <<"x", "/">>)}
        \cup {ExampleIssuer}

\* config.get of a worker size: the text of the setting, None when absent
WorkerSizes == {None, Some(<<"1">>), Some(<<"3">>)}

\* What an evaluation of the cluster stack runs under: its configuration
\* and the issuer URL the provider gives the cluster. The worker sizes
\* vary under one issuer, and the issuers under one pair of sizes.
EksConfSpace ==
    [eks_version : {NoneStr, Some("1.27")},
     eks_worker_max_size : WorkerSizes,
     eks_worker_min_size : WorkerSizes,
     issuer : {ExampleIssuer}]
    \cup
    [eks_version : {Some("1.27")},
     eks_worker_max_size : {Some(<<"3">>)},
     eks_worker_min_size : {Some(<<"1">>)},
     issuer : ClusterIssuers]

NoEksConf ==
    [eks_version |-> NoneStr, eks_worker_max_size |-> None,
     eks_worker_min_size |-> None, issuer |-> <<>>]

\* config.get(key): a str, or None
ConfigGet(v) == IF v.some THEN PyStr(v.value) ELSE PyNone

\* envName of the cluster stack
EksEnvName == <<"e", "k", "s", "-", "d", "e", "m", "o">>

\* EksArgs(base_tags=BASE_TAGS, ..., worker_max_size=config.get(...),
\* worker_min_size=config.get(...))
EksArgs(conf) ==
    EksArgsInit([name |-> EksEnvName \o <<"-", "k">>,
                 base_tags |-> ExampleTags,
                 worker_max_size |-> ConfigGet(conf.eks_worker_max_size),
                 worker_min_size |-> ConfigGet(conf.eks_worker_min_size)])

\* the five pulumi.export calls of eks/__main__.py
EksExported(cluster) ==
    [cluster_public_load_balancer |-> "alb-dns",
     cluster_name |-> cluster.self.name,
     cluster_worker_role |-> "arn:aws:iam::389169665533:role/worker",
     cluster_issuer |-> cluster.issuer,
     cluster_openid_connector |-> cluster.openid_connector.arn]

NoEksExports ==
    [cluster_public_load_balancer |-> "", cluster_name |-> <<>>,
     cluster_worker_role |-> "", cluster_issuer |-> <<>>,
     cluster_openid_connector |-> <<>>]

NoEksRun ==
    [evaluated |-> FALSE, error |-> "", cluster |-> NoEks,
     exports |-> NoEksExports]

\* One evaluation of eks/__main__.py, the network stack being applied.
EksMain ==
    /\ ~eksRun.evaluated
    /\ \E conf \in EksConfSpace :
        /\ eksCfg' = conf
        /\ eksRun' =
            IF ~conf.eks_version.some
            THEN [evaluated |-> TRUE, error |-> "config", cluster |-> NoEks,
                  exports |-> NoEksExports]
            ELSE IF ~CallBinds("EksArgs", EksKwargs)
            THEN [evaluated |-> TRUE, error |-> "TypeError",
                  cluster |-> NoEks, exports |-> NoEksExports]
            ELSE LET cluster == EKS(EksArgs(conf), conf.issuer)
                 IN [evaluated |-> TRUE, error |-> "", cluster |-> cluster,
                     exports |-> EksExported(cluster)]
    /\ UNCHANGED <<stackVars, svcVars, dbVars, mainVars, compVars, vpcCfg, vpcRun>>

\* ServicesResources built from the identities handed to it.
ServicesResourcesInit == ServicesResourcesFrom(ServicesAuthArgs)

\* The arguments of a KubernetesService that takes kube_issuer from the
\* cluster stack's cluster_issuer output.
SvcClusterArgs ==
    IF eksRun.evaluated /\ eksRun.error = ""
    THEN {[NoSvcArgs EXCEPT
            !.name = ExampleName,
            !.base_tags = ExampleTags,
            !.app_name = AppName,
            !.namespace = ExampleNamespace,
            !.kube_issuer = eksRun.exports.cluster_issuer,
            !.container_ports = << 3000 >>,
            !.ingress_port = 3000,
            !.openid_connector = "oidc-arn",
            !.public_load_balancer =
                eksRun.exports.cluster_public_load_balancer,
            !.environment_variables = ExampleEnv,
            !.secrets_data = ExampleSecrets]}
    ELSE {}

\* A KubernetesService built against the cluster the stack has created.
KubernetesServiceCluster == KubernetesServiceFrom(SvcClusterArgs)

ClusterNext ==
    \/ EksMain
    \/ ServicesResourcesInit
    \/ KubernetesServiceCluster

(***************************************************************************)
(* Part VII: the network program, with its values                          *)
(*                                                                         *)
(* vpc/__main__.py evaluated in one step: the zones the provider reports   *)
(* as available, the pair of them handed to the Vpc component, and the     *)
(* lists the stack exports.                                                *)
(***************************************************************************)

\* Bound of the number of availability zones the provider reports.
MaxZones == 3

ZoneNames == {"az-a", "az-b", "az-c", "az-d"}

\* aws.get_availability_zones(state="available").names: distinct zones
ZoneLists ==
    {q \in SeqsUpTo(ZoneNames, MaxZones) :
        \A i, j \in 1..Len(q) : i # j => q[i] # q[j]}

NoneBool == [some |-> FALSE, value |-> FALSE]

\* What an evaluation of the network stack runs under.
VpcConfSpace ==
    [names : ZoneLists,
     vpc_cidr : {NoneStr, Some("10.0.0.0/16"), Some("10.1.0.0/16")},
     create_s3_endpoint : {NoneBool, Some(TRUE), Some(FALSE)}]

NoVpcConf ==
    [names |-> <<>>, vpc_cidr |-> NoneStr, create_s3_endpoint |-> NoneBool]

ZonesFirstOnly(names) == << names[1] >>

\* zones = [zoneList.names[i] for i in (0,-1)], for a non-empty list
Zones(names) == << names[1], names[Len(names)] >>

\* config.get_bool('create_s3_endpoint', True)
GetBoolDefaultTrue(v) == IF v.some THEN v.value ELSE TRUE

\* VpcArgs(description=..., base_cidr=..., availability_zone_names=zones,
\* create_s3_endpoint=...)
VpcArgs(conf) ==
    [name |-> <<"v", "p", "c", "-", "d", "e", "m", "o", "-", "v", "p", "c">>,
     base_tags |-> ExampleTags,
     base_cidr |-> conf.vpc_cidr.value,
     availability_zone_names |-> Zones(conf.names),
     create_s3_endpoint |-> GetBoolDefaultTrue(conf.create_s3_endpoint)]

\* The Vpc component: a public subnet, a private subnet and a NAT gateway
\* address for every zone of availability_zone_names, in order.
Vpc(self) ==
    [constructed |-> TRUE,
     base_cidr |-> self.base_cidr,
     availability_zone_names |-> self.availability_zone_names,
     vpc |-> [id |-> "vpc-id"],
     public_subnets |->
        [i \in 1..Len(self.availability_zone_names) |->
            [id |-> [kind |-> "public", n |-> i],
             zone |-> self.availability_zone_names[i]]],
     private_subnets |->
        [i \in 1..Len(self.availability_zone_names) |->
            [id |-> [kind |-> "private", n |-> i],
             zone |-> self.availability_zone_names[i]]],
     nat_elastic_ip_addresses |->
        [i \in 1..Len(self.availability_zone_names) |->
            [public_ip |-> [kind |-> "nat", n |-> i]]],
     flow_logging |-> ""]

\* vpc.enableFlowLoggingToCloudWatchLogs("ALL")
enableFlowLoggingToCloudWatchLogs(component, traffic) ==
    [component EXCEPT !.flow_logging = traffic]

NoVpc ==
    [constructed |-> FALSE, base_cidr |-> "",
     availability_zone_names |-> <<>>, vpc |-> [id |-> ""],
     public_subnets |-> <<>>, private_subnets |-> <<>>,
     nat_elastic_ip_addresses |-> <<>>, flow_logging |-> ""]

\* the five pulumi.export calls of vpc/__main__.py
VpcExported(component, conf) ==
    [vpc_id |-> component.vpc.id,
     vpc_cidr |-> conf.vpc_cidr.value,
     public_subnet_ids |->
        [i \in 1..Len(component.public_subnets) |->
            component.public_subnets[i].id],
     private_subnet_ids |->
        [i \in 1..Len(component.private_subnets) |->
            component.private_subnets[i].id],
     nat_gateway_ips |->
        [i \in 1..Len(component.nat_elastic_ip_addresses) |->
            component.nat_elastic_ip_addresses[i].public_ip]]

NoVpcExports ==
    [vpc_id |-> "", vpc_cidr |-> "", public_subnet_ids |-> <<>>,
     private_subnet_ids |-> <<>>, nat_gateway_ips |-> <<>>]

NoVpcRun ==
    [evaluated |-> FALSE, error |-> "", vpc |-> NoVpc,
     exports |-> NoVpcExports]

\* One evaluation of vpc/__main__.py.
VpcMain ==
    /\ ~vpcRun.evaluated
    /\ \E conf \in VpcConfSpace :
        /\ vpcCfg' = conf
        /\ vpcRun' =
            IF conf.names = <<>>
            THEN \* zoneList.names[0]
                 [evaluated |-> TRUE, error |-> "IndexError", vpc |-> NoVpc,
                  exports |-> NoVpcExports]
            ELSE IF ~conf.vpc_cidr.some
            THEN [evaluated |-> TRUE, error |-> "config", vpc |-> NoVpc,
                  exports |-> NoVpcExports]
            ELSE IF ~CallBinds("VpcArgs", VpcKwargs)
            THEN [evaluated |-> TRUE, error |-> "TypeError", vpc |-> NoVpc,
                  exports |-> NoVpcExports]
            ELSE LET component ==
                        enableFlowLoggingToCloudWatchLogs(
                            Vpc(VpcArgs(conf)), "ALL")
                 IN [evaluated |-> TRUE, error |-> "", vpc |-> component,
                     exports |-> VpcExported(component, conf)]
    /\ UNCHANGED <<stackVars, svcVars, dbVars, mainVars, compVars, eksCfg, eksRun>>

NetNext == VpcMain

ProgInit ==
    /\ vpcCfg = NoVpcConf
    /\ vpcRun = NoVpcRun
    /\ eksCfg = NoEksConf
    /\ eksRun = NoEksRun

(***************************************************************************)
(* Specifications                                                          *)
(***************************************************************************)

Init == StackInit /\ SvcInit /\ DbInit /\ MainInit /\ CompInit /\ ProgInit

\* evaluation of the stack programs
Next == StackNext
Spec == Init /\ [][Next]_vars

\* construction of a KubernetesService
SvcSpec == Init /\ [][SvcNext]_vars

\* construction of an RdsDb
DbSpec == Init /\ [][DbNext]_vars

\* the database and application programs with their values
MainSpec == Init /\ [][MainNext]_vars

\* construction of the components of one deployment
CompSpec == Init /\ [][CompNext]_vars

\* the network program with its values
NetSpec == Init /\ [][NetNext]_vars

\* the cluster program and the components that consume its outputs
ClusterSpec == Init /\ [][ClusterNext]_vars

(***************************************************************************)
(* Properties                                                              *)
(***************************************************************************)

AllSteps == UNION {Steps(s) : s \in Stacks}

\* The steps of the running (or last) evaluation that have been passed.
Passed == {Program(cur)[i] : i \in 1..(pc - 1)}

\* The dependency order of the stacks: vpc < eks < db < services < app.
Rank(s) ==
    CASE s = "vpc" -> 1
      [] s = "eks" -> 2
      [] s = "db" -> 3
      [] s = "services" -> 4
      [] s = "app" -> 5

\* C1: every StackReference a stack declares points to a stack strictly
\* earlier in the order vpc < eks < db < services < app; no stack
\* references itself or a later stack.
C1_ReferencesPointEarlier ==
    \A e \in refs : Rank(e[2]) < Rank(e[1])

\* C1 witness: every reference of the five programs has been declared.
C1_Witness ==
    refs = {<<"eks", "vpc">>, <<"db", "vpc">>, <<"db", "eks">>,
            <<"services", "vpc">>, <<"services", "eks">>,
            <<"app", "eks">>, <<"app", "db">>}

\* The output keys some program reads from each stack.
ReadKeys ==
    [up \in Stacks |->
        {st.key : st \in {x \in AllSteps :
            x.kind \in {"require_output", "get_output"} /\ x.stack = up}}]
ReadKeysOf(up) == ReadKeys[up]

\* The keys section 6 of the specification requires of each producer.
RequiredKeys(s) ==
    CASE s = "vpc" -> {"vpc_id", "public_subnet_ids", "private_subnet_ids",
                       "nat_gateway_ips"}
      [] s = "eks" -> {"cluster_issuer", "cluster_openid_connector",
                       "cluster_worker_role", "cluster_public_load_balancer",
                       "cluster_name"}
      [] s = "db" -> {"db_admin_username", "db_admin_password"}
      [] OTHER -> {}

\* C2: an applied stack publishes every key a downstream stack reads from
\* it with require_output, under exactly that key, and every key required
\* of it; the keys read are the nine the claim lists.
C2_ConsumedKeysArePublished ==
    /\ UNION {ReadKeysOf(s) : s \in Stacks} =
         {"vpc_id", "public_subnet_ids", "private_subnet_ids",
          "cluster_issuer", "cluster_openid_connector",
          "cluster_public_load_balancer", "cluster_worker_role",
          "db_admin_username", "db_admin_password"}
    /\ \A s \in Stacks :
         applied[s] => /\ ReadKeysOf(s) \subseteq outputs[s]
                       /\ RequiredKeys(s) \subseteq outputs[s]

\* C2 witness: the three producing stacks have all been applied.
C2_Witness == applied["vpc"] /\ applied["eks"] /\ applied["db"]

\* C3: an evaluation gets past a StackReference or an output read only if
\* the upstream stack is applied and publishes the key; every cross-stack
\* read is a require_output, and no upstream output is ever bound to None.
C3_MissingUpstreamIsAnError ==
    /\ \A st \in Passed :
         /\ st.kind = "ref" => applied[st.stack]
         /\ st.kind \in {"require_output", "get_output"} =>
              applied[st.stack] /\ st.key \in outputs[st.stack]
    /\ \A st \in AllSteps : st.kind # "get_output"
    /\ \A n \in nones : n[1] = "config"
    /\ status = "done" =>
         \A st \in Steps(cur) :
            st.kind \in {"ref", "require_output"} => applied[st.stack]

\* C3 witness: an evaluation ended in an error at the reference to a stack
\* that has not been applied.
C3_Witness ==
    /\ status = "failed" /\ failure = "reference"
    /\ Step.kind = "ref" /\ ~applied[Step.stack]

\* C4 (as claimed): when a required configuration value or a required
\* cross-stack output is missing, the evaluation fails before any resource
\* of the stack has been declared.
C4_FailsBeforeAnyDeclaration ==
    (status = "failed" /\ failure \in {"config", "reference", "output"})
        => declared = <<>>


\* The issuer with its leading https:// scheme, if any, removed.
WithoutLeadingScheme(ki) ==
    IF StartsWith(ki, HttpsScheme)
    THEN SubSeq(ki, Len(HttpsScheme) + 1, Len(ki))
    ELSE ki

\* The one condition of the one statement of the assume-role policy.
TrustCondition == svc.assume_role_policy.statements[1].conditions[1]

\* C5 (as claimed): for every issuer URL, namespace and service name the
\* trust condition's variable is the issuer with the leading https://
\* removed, followed by ":sub", and its single value is
\* "system:serviceaccount:<namespace>:<service-name>"; the example of the
\* specification yields x.eks.amazonaws.com/id/ABC:sub and
\* system:serviceaccount:demoapp:demoapp-app.
C5_TrustConditionStripsLeadingScheme ==
    svc.constructed =>
        /\ TrustCondition.variable =
             WithoutLeadingScheme(svcArgs.kube_issuer) \o SubSuffix
        /\ TrustCondition.values =
             << SubjectPrefix \o svcArgs.namespace \o Colon \o svcArgs.name >>
        /\ (/\ svcArgs.kube_issuer = ExampleIssuer
            /\ svcArgs.name = ExampleName
            /\ svcArgs.namespace = ExampleNamespace) =>
              /\ TrustCondition.variable = <<"x", ".", "e", "k", "s", ".", "a", "m", "a", "z", "o", "n", "a", "w", "s", ".", "c", "o", "m", "/", "i", "d", "/", "A", "B", "C", ":", "s", "u", "b">>
              /\ TrustCondition.values = << <<"s", "y", "s", "t", "e", "m", ":", "s", "e", "r", "v", "i", "c", "e", "a", "c", "c", "o", "u", "n", "t", ":", "d", "e", "m", "o", "a", "p", "p", ":", "d", "e", "m", "o", "a", "p", "p", "-", "a", "p", "p">> >>

\* C6: the assume-role policy has exactly one statement with exactly one
\* condition, a StringEquals test with exactly one value; the value names
\* the ServiceAccount the component declares, no other (namespace, name)
\* yields that value, and the Deployment's pods run under that
\* ServiceAccount in its namespace.
C6_TrustBoundToOwnServiceAccount ==
    svc.constructed =>
        /\ Len(svc.assume_role_policy.statements) = 1
        /\ Len(svc.assume_role_policy.statements[1].conditions) = 1
        /\ TrustCondition.test = "StringEquals"
        /\ Len(TrustCondition.values) = 1
        /\ TrustCondition.values[1] =
             SubjectPrefix \o svc.sa.namespace \o Colon \o svc.sa.name
        /\ \A id \in SvcIdentities :
             (SubjectPrefix \o id[1] \o Colon \o id[2]
                = TrustCondition.values[1])
               => (id[1] = svc.sa.namespace /\ id[2] = svc.sa.name)
        /\ svc.deployment.service_account_name = svc.sa.name
        /\ svc.deployment.namespace = svc.sa.namespace

\* C6 witness: a service whose namespace and name run together like those
\* of another identity ("a" + "aa" and "aa" + "a") has been constructed.
C6_Witness ==
    /\ svc.constructed
    /\ svc.sa.namespace = <<"a">> /\ svc.sa.name = <<"a", "a">>

\* The entries of the hostname list, by position.
HostIndex == 1..Len(svcArgs.hostname_list)

\* A record was declared for the entry at position i (named by its index).
HasRecord(i) ==
    \E j \in 1..Len(svc.records) :
        /\ svc.records[j].nrec = i - 1
        /\ svc.records[j].name = svcArgs.hostname_list[i].name

\* C7: for every entry of a non-empty hostname list in which create_record
\* is not set, a DNS record is declared for that entry.
C7_UnsetCreateRecordDeclaresRecord ==
    svc.constructed =>
        \A i \in HostIndex :
            svcArgs.hostname_list[i].create_record = "unset" => HasRecord(i)

\* C7 witness: constructed with an entry whose create_record is unset.
C7_Witness ==
    /\ svc.constructed
    /\ \E i \in HostIndex : svcArgs.hostname_list[i].create_record = "unset"

\* C8: for every entry whose create_record is False no DNS record is
\* declared, the entry's hostname is still in the ingress route's Host(...)
\* match, and the number of records equals the number of entries whose
\* create_record is not False.
C8_FalseCreateRecordDeclaresNone ==
    svc.constructed =>
        /\ \A i \in HostIndex :
             svcArgs.hostname_list[i].create_record = "False" =>
               /\ ~HasRecord(i)
               /\ \A j \in 1..Len(svc.records) : svc.records[j].nrec # i - 1
               /\ Len(svc.ingress) = 1
               /\ Contains(svc.ingress[1].match,
                           Backquote \o svcArgs.hostname_list[i].name
                               \o Backquote)
        /\ Len(svc.records) =
             Cardinality({i \in HostIndex :
                 svcArgs.hostname_list[i].create_record # "False"})

\* C8 witness: constructed with one entry whose create_record is False and
\* another whose create_record is not False.
C8_Witness ==
    /\ svc.constructed
    /\ \E i, j \in HostIndex :
         /\ svcArgs.hostname_list[i].create_record = "False"
         /\ svcArgs.hostname_list[j].create_record # "False"

\* C9: with an empty service_permissions list neither a Policy nor a
\* RolePolicyAttachment is declared; with a non-empty list exactly one
\* Policy is declared and exactly one attachment binds it to the service
\* role.
C9_PolicyOnlyWithPermissions ==
    svc.constructed =>
        /\ Len(svcArgs.service_permissions) = 0 =>
             svc.policies = <<>> /\ svc.attachments = <<>>
        /\ Len(svcArgs.service_permissions) > 0 =>
             /\ Len(svc.policies) = 1
             /\ Len(svc.attachments) = 1
             /\ svc.attachments[1].policy = svc.policies[1].name
             /\ svc.attachments[1].role = svc.role

\* C9 witness: constructed with an empty service_permissions list.
C9_Witness == svc.constructed /\ svcArgs.service_permissions = <<>>

\* C10: the cluster's skip_final_snapshot is the negation of
\* is_prod_database; a production database has a non-empty
\* final_snapshot_identifier, a non-production one has none.
C10_FinalSnapshotFollowsProdFlag ==
    db.constructed =>
        /\ db.serverless_db.skip_final_snapshot = ~dbArgs.is_prod_database
        /\ dbArgs.is_prod_database =>
             /\ db.serverless_db.skip_final_snapshot = FALSE
             /\ db.serverless_db.final_snapshot_identifier.some
             /\ db.serverless_db.final_snapshot_identifier.value # <<>>
        /\ ~dbArgs.is_prod_database =>
             /\ db.serverless_db.skip_final_snapshot = TRUE
             /\ ~db.serverless_db.final_snapshot_identifier.some

\* C10 witness: a production database with an empty component name.
C10_Witness ==
    db.constructed /\ dbArgs.is_prod_database /\ dbArgs.name = <<>>

\* The application stack was evaluated under a configuration that declares
\* both replica bounds and everything else the program reads.
AppBoundsDeclared ==
    /\ appRun.evaluated
    /\ appCfg.app_min_replicas.some /\ appCfg.app_max_replicas.some
    /\ appCfg.app_hostnames.some /\ appCfg.app_secrets.some

\* C11: for any declared min/max replica configuration of the application
\* stack, a configuration with min <= max (min = max included) is accepted
\* and yields an autoscaler whose min_replicas <= max_replicas, and a
\* configuration with min > max is rejected as a configuration error and
\* yields no autoscaler.
C11_AutoscalerBoundsChecked ==
    AppBoundsDeclared =>
        IF appCfg.app_min_replicas.value <= appCfg.app_max_replicas.value
        THEN /\ appRun.error = ""
             /\ Len(appRun.app.autoscaling) = 1
             /\ \A i \in 1..Len(appRun.app.autoscaling) :
                    appRun.app.autoscaling[i].min_replicas
                        <= appRun.app.autoscaling[i].max_replicas
        ELSE /\ appRun.error = "config"
             /\ appRun.app.autoscaling = <<>>

\* C12: the autoscaler declared for the application stack has the stack's
\* declared bounds: min_replicas is app_min_replicas and max_replicas is
\* app_max_replicas.
C12_AutoscalerUsesDeclaredBounds ==
    AppBoundsDeclared =>
        /\ Len(appRun.app.autoscaling) = 1
        /\ \A i \in 1..Len(appRun.app.autoscaling) :
            /\ appRun.app.autoscaling[i].min_replicas
                    = appCfg.app_min_replicas.value
            /\ appRun.app.autoscaling[i].max_replicas
                    = appCfg.app_max_replicas.value

\* The evaluation of stack s runs, or has ended, under a configuration
\* holding every key its program reads and with every stack it references
\* applied.
FullyProvided(s) ==
    /\ cur = s /\ status # "idle"
    /\ cfg = ConfigKeys(s)
    /\ \A st \in Steps(s) : st.kind = "ref" => applied[st.stack]

Declares(n) == \E i \in 1..Len(declared) : declared[i] = n

\* C13: given every configuration key it reads and every upstream output
\* it requires, the evaluation of the application stack never fails, and
\* when it has ended it has declared the KubernetesService component (the
\* ServiceAccount, Secret, Deployment, autoscaler and Service): the call of
\* KubernetesServiceArgs binds.
C13_AppStackEvaluates ==
    FullyProvided("app") =>
        /\ status # "failed"
        /\ status = "done" => Declares("KubernetesService")

\* C14: given every configuration key it reads and every upstream output
\* it requires, the evaluation of the cluster-services stack never fails,
\* and when it has ended it has declared the ServicesResources component
\* (aws-auth ConfigMap, metrics server, EBS CSI release, Traefik namespace
\* and release, registry and lifecycle policy): the call of ServicesArgs
\* binds.
C14_ServicesStackEvaluates ==
    FullyProvided("services") =>
        /\ status # "failed"
        /\ status = "done" => Declares("ServicesResources")

DbCredentialKeys == {"db_admin_username", "db_admin_password"}

\* C15: once the database stack is applied, its published outputs hold the
\* admin username, the admin password and, besides these credentials, the
\* proxy endpoint.
C15_DbPublishesProxyEndpoint ==
    applied["db"] =>
        /\ DbCredentialKeys \subseteq outputs["db"]
        /\ outputs["db"] \ DbCredentialKeys # {}

\* C16: the database stack references the network stack only, so with the
\* network stack applied an evaluation of the database stack never fails
\* at a stack reference.
C16_DbDependsOnNetworkOnly ==
    /\ \A e \in refs : e[1] = "db" => e[2] = "vpc"
    /\ (cur = "db" /\ status = "failed" /\ applied["vpc"])
            => failure # "reference"

\* The value RandomPassword generates.
GeneratedPassword == "db-password"

DictValues(d) == {d[k] : k \in DOMAIN d}

\* The values held by the fields of an RdsDb's resources that are not
\* secret-typed: usernames, database names, descriptions, tags, record
\* targets.
DbPlainValues(component) ==
    {Plain(component.serverless_db.master_username),
     Plain(component.serverless_db.database_name),
     component.db_proxy_secret.description}
        \cup DictValues(component.serverless_db.tags)
        \cup DictValues(component.db_proxy_secret.tags)
        \cup {Plain(component.records[i].name) :
                i \in 1..Len(component.records)}
        \cup UNION {{Plain(component.records[i].records[j]) :
                        j \in 1..Len(component.records[i].records)} :
                     i \in 1..Len(component.records)}

\* The values held by the fields of a KubernetesService's resources that
\* are not secret-typed: environment variables, tags, record targets.
SvcPlainValues(component) ==
    {e.value : e \in component.deployment.env}
        \cup DictValues(component.tags)
        \cup {Plain(component.records[i].target) :
                i \in 1..Len(component.records)}

\* C17: the generated database password is held by no field that is not
\* secret-typed, in the db component, in the application's component or in
\* a KubernetesService given it as secrets data, and by no output of the
\* database stack that is not marked secret.
C17_PasswordOnlyInSecretFields ==
    /\ \A v \in DbPlainValues(dbRun.db) \cup SvcPlainValues(appRun.app)
                \cup SvcPlainValues(svc) : v.val # GeneratedPassword
    /\ \A k \in DOMAIN dbRun.exports :
        dbRun.exports[k].val = GeneratedPassword => dbRun.exports[k].secret

\* The password has reached master_password, secret_string, the stack's
\* output and, in a KubernetesService given that output, string_data.
C17_Witness ==
    /\ dbRun.evaluated /\ dbRun.error = ""
    /\ dbRun.db.serverless_db.master_password.val = GeneratedPassword
    /\ dbRun.db.db_proxy_secret_version.secret_string.val.password
            = GeneratedPassword
    /\ dbRun.exports.db_admin_password.val = GeneratedPassword
    /\ appRun.evaluated
    /\ svc.constructed
    /\ \E i \in 1..Len(svc.secrets) :
        \E k \in DOMAIN svc.secrets[i].string_data :
            svc.secrets[i].string_data[k].val = GeneratedPassword

\* C18: both credential outputs of the applied database stack,
\* db_admin_username and db_admin_password, are marked secret.
C18_CredentialOutputsAreSecret ==
    (dbRun.evaluated /\ dbRun.error = "") =>
        /\ DbCredentialKeys \subseteq DOMAIN dbRun.exports
        /\ \A k \in DbCredentialKeys : dbRun.exports[k].secret

RECURSIVE SplitOn(_, _)
\* the pieces of s between the occurrences of the character c
SplitOn(s, c) ==
    IF \A i \in 1..Len(s) : s[i] # c THEN <<s>>
    ELSE LET i == CHOOSE j \in 1..Len(s) :
                    s[j] = c /\ \A k \in 1..(j - 1) : s[k] # c
         IN <<SubSeq(s, 1, i - 1)>> \o SplitOn(SubSeq(s, i + 1, Len(s)), c)

\* m reads Host(q1,...,qn) with each qi a hostname between backquotes
WellFormedMatch(m) ==
    /\ StartsWith(m, <<"H", "o", "s", "t", "(">>)
    /\ Len(m) >= 6 /\ m[Len(m)] = ")"
    /\ LET parts == SplitOn(SubSeq(m, 6, Len(m) - 1), ",")
       IN \A i \in 1..Len(parts) :
            /\ Len(parts[i]) >= 2
            /\ <<parts[i][1]>> = Backquote
            /\ <<parts[i][Len(parts[i])]>> = Backquote

\* the hostnames a well-formed match lists, in order
ListedHosts(m) ==
    LET parts == SplitOn(SubSeq(m, 6, Len(m) - 1), ",")
    IN [i \in 1..Len(parts) |-> SubSeq(parts[i], 2, Len(parts[i]) - 1)]

\* C19: a KubernetesService given no hostname declares no IngressRoute and
\* no DNS record; given hostnames it declares exactly one IngressRoute,
\* whose Host(...) match lists every given hostname in the given order;
\* every DNS record it declares is a CNAME to the public load balancer.
C19_IngressFollowsHostnames ==
    svc.constructed =>
        /\ svcArgs.hostname_list = <<>>
                => (svc.ingress = <<>> /\ svc.records = <<>>)
        /\ svcArgs.hostname_list # <<>>
                => /\ Len(svc.ingress) = 1
                   /\ WellFormedMatch(svc.ingress[1].match)
                   /\ ListedHosts(svc.ingress[1].match)
                        = [i \in 1..Len(svcArgs.hostname_list) |->
                                svcArgs.hostname_list[i].name]
        /\ \A i \in 1..Len(svc.records) :
            /\ svc.records[i].type = "CNAME"
            /\ svc.records[i].target = svcArgs.public_load_balancer

\* Two different hostnames were given and a record was declared.
C19_Witness ==
    /\ svc.constructed
    /\ Len(svcArgs.hostname_list) = 2
    /\ svcArgs.hostname_list[1].name # svcArgs.hostname_list[2].name
    /\ Len(svc.ingress) = 1
    /\ Len(svc.records) >= 1

\* The resource tree of a component: the component, and its declarations.
Tree(c) == [self |-> c.self, children |-> c.children]

Components ==
    {Tree(eks), Tree(db), Tree(svcs), Tree(svc), Tree(certs), Tree(kauth)}

\* the resources a component has declared
Ids(c) ==
    {ResourceId(c.children[i].type, c.children[i].name) :
        i \in 1..Len(c.children)}

\* the parents the declarations of resource id name
ParentsOf(c, id) ==
    {c.children[i].parent :
        i \in {j \in 1..Len(c.children) :
                ResourceId(c.children[j].type, c.children[j].name) = id}}

RECURSIVE Rooted(_, _, _)
\* following parents from id reaches the component within n steps
Rooted(c, id, n) ==
    /\ n > 0
    /\ \A p \in ParentsOf(c, id) :
        p = c.self \/ (p \in Ids(c) /\ Rooted(c, p, n - 1))

\* C20: in every component each declared resource has exactly one parent;
\* following parents from it leads to the component, through resources of
\* that component only; and no resource, and no parent, belongs to another
\* component.
C20_ParentsFormTrees ==
    \A c \in Components :
        /\ c.self \notin Ids(c)
        /\ \A id \in Ids(c) :
            /\ Cardinality(ParentsOf(c, id)) = 1
            /\ Rooted(c, id, Len(c.children))
        /\ \A d \in Components \ {c} :
            /\ Ids(c) \cap Ids(d) = {}
            /\ \A i \in 1..Len(c.children) :
                c.children[i].parent \notin (Ids(d) \cup {d.self})

\* All six components are constructed, under one name, and each of the
\* conditional declarations has happened: a policy, an ingress route and a
\* DNS record of the service, and a validation record of the certificate.
C20_Witness ==
    /\ eks.constructed /\ db.constructed /\ svcs.constructed
    /\ svc.constructed /\ kauth.constructed
    /\ certs.constructed = "resolved"
    /\ \A c \in Components : c.self.name = eks.self.name
    /\ Len(certs.children) >= 2
    /\ Len(svc.policies) = 1 /\ Len(svc.ingress) = 1
    /\ Len(svc.records) >= 1

\* The identities the authorization ConfigMap grants a cluster group to.
MappedRoles ==
    {svcs.cluster_auth.mapRoles[i] :
        i \in 1..Len(svcs.cluster_auth.mapRoles)}
MappedUsers ==
    {svcs.cluster_auth.mapUsers[i] :
        i \in 1..Len(svcs.cluster_auth.mapUsers)}
SuppliedUsers == {svcs.kube_users[i] : i \in 1..Len(svcs.kube_users)}

\* C21 (as claimed): the aws-auth ConfigMap of kube-system declared by the
\* cluster-services component maps exactly the supplied worker role, to
\* system:bootstrappers and system:nodes, and the supplied admin users,
\* each to system:masters under the last '/'-separated segment of its
\* ARN; no other identity is granted a cluster group.
C21_AuthMapsOnlySuppliedIdentities ==
    svcs.constructed =>
        /\ svcs.cluster_auth.name = "aws-auth"
        /\ svcs.cluster_auth.namespace = "kube-system"
        /\ \E e \in MappedRoles : e.rolearn = svcs.worker_role_arn
        /\ \A e \in MappedRoles :
              /\ e.rolearn = svcs.worker_role_arn
              /\ e.groups = {"system:bootstrappers", "system:nodes"}
        /\ {e.userarn : e \in MappedUsers} = SuppliedUsers
        /\ \A e \in MappedUsers :
              /\ e.groups = {"system:masters"}
              /\ e.username = LastSegment(e.userarn)
              /\ ~Contains(e.username, <<"/">>)
              /\ \E k \in 0..Len(e.userarn) :
                    /\ e.username = SubSeq(e.userarn, k + 1, Len(e.userarn))
                    /\ (k = 0 \/ e.userarn[k] = "/")


\* The configuration inputs the specification names, by consuming stack,
\* and the component each stack hands them to.
NamedInputs ==
    [s \in Stacks |->
        CASE s = "vpc" -> {"vpc_cidr"}
          [] s = "eks" -> {}
          [] s = "db" -> {"cidr_blocks"}
          [] s = "services" -> {"eks_ebs_csi_chart_version", "kube_users"}
          [] s = "app" -> {"app_image", "app_min_replicas",
                           "app_max_replicas", "app_hostnames",
                           "app_secrets"}]
Consumer ==
    [s \in Stacks |->
        CASE s = "vpc" -> "Vpc"
          [] s = "eks" -> "EKS"
          [] s = "db" -> "RdsDb"
          [] s = "services" -> "ServicesResources"
          [] s = "app" -> "KubernetesService"]

\* C22 (as claimed): for each configuration input the specification names,
\* an evaluation of the consuming stack with that key absent ends in a
\* declaration-time error: it never runs to the end, and the component the
\* value is handed to is never declared with None in its place.
C22_AbsentInputIsAnError ==
    /\ status = "done" => NamedInputs[cur] \subseteq cfg
    /\ \A k \in NamedInputs[cur] :
          <<"config", k>> \in nones => ~Declares(Consumer[cur])

\* The network stack ran to its end.
VpcEvaluated == vpcRun.evaluated /\ vpcRun.error = ""

C27_PassesTwoDistinctZones ==
    vpcRun.evaluated =>
        /\ (vpcCfg.names # <<>> /\ vpcRun.vpc.constructed) =>
              /\ vpcRun.vpc.availability_zone_names
                    = << vpcCfg.names[1], vpcCfg.names[Len(vpcCfg.names)] >>
              /\ vpcRun.vpc.availability_zone_names[1]
                    # vpcRun.vpc.availability_zone_names[2]
        /\ (vpcCfg.names # <<>> /\ vpcCfg.vpc_cidr.some) =>
              vpcRun.vpc.constructed
        /\ vpcCfg.names = <<>> =>
              (vpcRun.error # "" /\ ~vpcRun.vpc.constructed)

\* The declared names of the resources of component c.
ChildNames(c) == [i \in 1..Len(c.children) |-> c.children[i].name]

\* C24 (as claimed): a resource's identity is its declared name; within
\* each component no two declared resources share the same declared name,
\* for every component name and every hostname-list length.
C24_DeclaredNamesAreUnique ==
    \A c \in Components :
        \A i, j \in 1..Len(c.children) :
            i # j => ChildNames(c)[i] # ChildNames(c)[j]

\* The cluster stack ran to its end.
EksEvaluated == eksRun.evaluated /\ eksRun.error = ""

\* The node ports the worker node security group admits.
AdmittedPorts ==
    eksRun.cluster.node_sec_grp_app.from_port
        ..eksRun.cluster.node_sec_grp_app.to_port

\* C25: the ports fixed in the cluster stack and in the cluster-services
\* stack agree: the target group's traffic port (32080) is the nodePort of
\* Traefik's 'web' entry point, its health-check port (30900) is the
\* nodePort of the 'traefik' entry point, and both lie in the range
\* (30000-32800) the worker node security group admits from the VPC.
C25_NodePortsAgree ==
    (EksEvaluated /\ svcs.constructed) =>
        LET tg == eksRun.cluster.alb_tg
            ports == svcs.traefik.ports
        IN /\ tg.port = 32080
           /\ tg.port = ports.web.nodePort
           /\ tg.health_check.port = <<"3", "0", "9", "0", "0">>
           /\ tg.health_check.port = IntToStr(ports.traefik.nodePort)
           /\ ports.web.expose /\ ports.traefik.expose
           /\ svcs.traefik.service.type = "NodePort"
           /\ eksRun.cluster.node_sec_grp_app.type = "ingress"
           /\ eksRun.cluster.node_sec_grp_app.protocol = "tcp"
           /\ AdmittedPorts = 30000..32800
           /\ {tg.port, ports.web.nodePort, ports.traefik.nodePort}
                 \subseteq AdmittedPorts

C25_Witness == EksEvaluated /\ svcs.constructed

\* the bounds of the worker capacity group
WorkerGroup == eksRun.cluster.node_autoscaling

\* C26 (as claimed): the worker capacity group of the cluster stack always
\* has integer bounds: max_size and min_size are the configured
\* eks_worker_max_size and eks_worker_min_size when present and the EksArgs
\* defaults, 10 and 2, when the keys are absent; they are never None.
C26_WorkerBoundsAreIntegers ==
    EksEvaluated =>
        /\ WorkerGroup.max_size.type = "int"
        /\ WorkerGroup.min_size.type = "int"
        /\ IF eksCfg.eks_worker_max_size.some
           THEN IntToStr(WorkerGroup.max_size.int)
                    = eksCfg.eks_worker_max_size.value
           ELSE WorkerGroup.max_size = PyInt(10)
        /\ IF eksCfg.eks_worker_min_size.some
           THEN IntToStr(WorkerGroup.min_size.int)
                    = eksCfg.eks_worker_min_size.value
           ELSE WorkerGroup.min_size = PyInt(2)

\* C30 (as claimed): for one cluster the two derivations of the federation
\* condition variable agree: what the cluster component derives from the
\* identity provider's ARN (the text after its first '/', then ':sub') is
\* what the application component derives from the exported
\* cluster_issuer (the issuer without 'https://', then ':sub'), for every
\* issuer URL of the form https://<host>/<path>.
C30_ConditionVariablesAgree ==
    (EksEvaluated /\ svc.constructed) =>
        /\ svcArgs.kube_issuer = eksRun.cluster.issuer
        /\ eksRun.cluster.autoscaler_role.variable = TrustCondition.variable

\* C28 (as claimed): the secret data handed to the application's Secret
\* always contains DB_USERNAME and DB_PASSWORD; their values are the
\* database stack's db_admin_username and db_admin_password outputs unless
\* app_secrets defines the same key, whose configured value then takes
\* precedence; every other app_secrets key is passed through unchanged.
C28_SecretDataMergesDefaults ==
    (appRun.evaluated /\ appCfg.app_secrets.some) =>
        /\ Len(appRun.app.secrets) = 1
        /\ \A i \in 1..Len(appRun.app.secrets) :
              LET data == appRun.app.secrets[i].string_data
                  configured == appCfg.app_secrets.value
              IN /\ {"DB_USERNAME", "DB_PASSWORD"} \subseteq DOMAIN data
                 /\ DOMAIN data
                       = {"DB_USERNAME", "DB_PASSWORD"} \cup DOMAIN configured
                 /\ \A k \in DOMAIN configured : data[k] = configured[k]
                 /\ "DB_USERNAME" \notin DOMAIN configured =>
                       data["DB_USERNAME"] = dbRun.exports.db_admin_username
                 /\ "DB_PASSWORD" \notin DOMAIN configured =>
                       data["DB_PASSWORD"] = dbRun.exports.db_admin_password

\* C29: within one KubernetesService the workload objects refer to each
\* other consistently, for every component name and namespace: the
\* Deployment's selector labels are its pod template's labels and the
\* Service's selector; the autoscaler's scale target names the
\* Deployment's metadata name in the same namespace; the Service exposes
\* exactly the container ports of the Deployment under the same port
\* names; and the ingress route targets that Service.
C29_WorkloadObjectsAgree ==
    svc.constructed =>
        /\ Len(svc.service) = 1 /\ Len(svc.autoscaling) = 1
        /\ LET d == svc.deployment
               s == svc.service[1]
               hpa == svc.autoscaling[1]
           IN /\ d.match_labels = d.template_labels
              /\ d.match_labels = s.selector
              /\ DOMAIN d.match_labels # {}
              /\ hpa.scale_target_ref.kind = "Deployment"
              /\ hpa.scale_target_ref.name = d.name
              /\ hpa.namespace = d.namespace
              /\ s.namespace = d.namespace
              /\ Len(s.ports) = Len(d.ports)
              /\ \A i \in 1..Len(d.ports) :
                    /\ s.ports[i].port = d.ports[i].container_port
                    /\ s.ports[i].name = d.ports[i].name
              /\ \A i \in 1..Len(svc.ingress) :
                    /\ svc.ingress[i].namespace = s.namespace
                    /\ Len(svc.ingress[i].services) = 1
                    /\ \A j \in 1..Len(svc.ingress[i].services) :
                          /\ svc.ingress[i].services[j].kind = "Service"
                          /\ svc.ingress[i].services[j].name = s.name
                          /\ svc.ingress[i].services[j].namespace
                                = s.namespace

\* A workload with two container ports and an ingress route, whose name
\* differs from its namespace.
C29_Witness ==
    /\ svc.constructed
    /\ svcArgs.name # svcArgs.namespace
    /\ Len(svc.deployment.ports) = 2
    /\ svc.deployment.ports[1] # svc.deployment.ports[2]
    /\ Len(svc.ingress) = 1

====
